---- MODULE Spec2Model ----
(***************************************************************************)
(* Model of @seed-fe/event-channel: the protected-event registry           *)
(* (protected-events.ts), the channel facade (core.ts), and the            *)
(* group/namespace batch operations (group-namespace.ts) on top of an      *)
(* EventEmitter2 instance.                                                 *)
(*                                                                         *)
(* JavaScript values are modelled as follows.                              *)
(*  - A value that can be an event key or an emitted argument is a record  *)
(*    [sym, str]: a symbol is [sym |-> n, str |-> ""] with n >= 1 the      *)
(*    order in which Symbol() created it, a string is [sym |-> 0, str].    *)
(*  - The strings that take part in glob matching (meta.group,             *)
(*    meta.namespace, patterns) are sequences of one-character strings.    *)
(*  - An optional string (string | undefined) is [def, str].               *)
(*  - A Map is the sequence of its entries in insertion order.             *)
(***************************************************************************)
EXTENDS Integers, Sequences, FiniteSets, TLC

VARIABLES
  protectedEvents,  \* protected-events.ts: Map<symbol, {name, meta}>, in insertion order
  symCount,         \* number of symbols created so far by Symbol(...)
  created,          \* the channels returned so far by createEventChannel()
  events,           \* per emitter, per event key: the EventEmitter2 listener list
  last,             \* the operation performed by the last step, with its inputs
  ret,              \* what that operation returned
  threw,            \* whether that operation raised an error
  fired,            \* the handler invocations that operation made, in order
  emits,            \* if that operation is a batch emission: its emit calls, in order
  task              \* the asynchronous dispatch in progress or last finished

vars == <<protectedEvents, symCount, created, events, last, ret, threw, fired,
          emits, task>>

-----------------------------------------------------------------------------
(* Bounds of the model *)

MaxSymbols == 3     \* symbols created in one run
MaxKeys == 1        \* symbols created in the runs of the channel facade and of call sequences
MaxBatchKeys == 2   \* symbols created in the runs of the batch operations
MaxListeners == 2   \* listeners attached at any time, over all emitters

-----------------------------------------------------------------------------
(* Values *)

Sym(n) == [sym |-> n, str |-> ""]
Str(s) == [sym |-> 0, str |-> s]
IsSymbol(v) == v.sym # 0                       \* typeof v === 'symbol'

Symbols == 1..MaxSymbols
\* the event keys listeners are attached to: the symbols of a run and a
\* string name
KeySymbols == Symbols
Keys == {Sym(n) : n \in KeySymbols} \cup {Str("evt")}

Undefined == [def |-> FALSE, str |-> <<>>]     \* an optional string that is absent
Some(s) == [def |-> TRUE, str |-> s]

\* meta: an open mapping from field names to strings
EmptyMeta == [f \in {} |-> <<>>]
Field(meta, f) == IF f \in DOMAIN meta THEN Some(meta[f]) ELSE Undefined

G1 == <<"g", "1">>
G2 == <<"g", "2">>
N1 == <<"n", "1">>
N2 == <<"n", "2">>

Names == {"A", "B"}
Metas ==
  { [group |-> G1, namespace |-> N1],
    [group |-> G1, namespace |-> N2],
    [group |-> G2, namespace |-> N1, foo |-> <<"x">>] }

-----------------------------------------------------------------------------
(* The registry: protected-events.ts *)

\* Map.prototype.has / get / set / delete on a sequence of [key, value] entries
MapHas(m, k) == \E i \in 1..Len(m) : m[i].symbol = k
MapIndex(m, k) == CHOOSE i \in 1..Len(m) : m[i].symbol = k
MapSet(m, k, v) ==
  IF MapHas(m, k)
    THEN [m EXCEPT ![MapIndex(m, k)] = [symbol |-> k, name |-> v.name, meta |-> v.meta]]
    ELSE Append(m, [symbol |-> k, name |-> v.name, meta |-> v.meta])
SwapDelete(m, k) ==
  IF ~MapHas(m, k) THEN m
  ELSE LET i == MapIndex(m, k)
           n == Len(m)
       IN  SubSeq([m EXCEPT ![i] = m[n]], 1, n - 1)
MapDelete(m, k) == SelectSeq(m, LAMBDA e : e.symbol # k)

\* Symbol(name): a symbol distinct from every symbol created before
SymbolFor(name) ==
  IF \E i \in 1..Len(protectedEvents) : protectedEvents[i].name = name
    THEN protectedEvents[CHOOSE i \in 1..Len(protectedEvents) :
                           protectedEvents[i].name = name].symbol
    ELSE symCount + 1
NewSymbol(name) == symCount + 1

AlwaysProtected(sym) == sym \in 1..symCount
isProtectedEvent(sym) == MapHas(protectedEvents, sym)

NoMeta == [def |-> FALSE, meta |-> EmptyMeta]  \* undefined
SomeMeta(m) == [def |-> TRUE, meta |-> m]
MetaArgs == {NoMeta} \cup {SomeMeta(m) : m \in Metas}

\* a buggy variant: only the recognized fields are returned
KnownFields == {"description", "group", "namespace"}
GetKnownMeta(sym) ==
  IF MapHas(protectedEvents, sym)
    THEN LET m == protectedEvents[MapIndex(protectedEvents, sym)].meta
         IN  SomeMeta([f \in DOMAIN m \cap KnownFields |-> m[f]])
    ELSE NoMeta
getProtectedEventMeta(sym) ==
  IF MapHas(protectedEvents, sym)
    THEN [def |-> TRUE, meta |-> protectedEvents[MapIndex(protectedEvents, sym)].meta]
    ELSE NoMeta

\* Array.from(protectedEvents.entries()).map(...): the entries in insertion order
listProtectedEvents == protectedEvents

\* A call listProtectedEvents(filter): the function declares no parameter, so
\* the argument is discarded.
listProtectedEventsWith(filter) == listProtectedEvents

-----------------------------------------------------------------------------
(* The record of the last operation *)

NoKey == Str("")
NoOp ==
  [op |-> "init", em |-> "", key |-> NoKey,
   name |-> "", meta |-> NoMeta]

\* no asynchronous dispatch was started yet: op is the function called, em
\* its emitter, state the state of the promise it returned, matched the keys
\* it collected, idx the number of them it has dispatched, value the running
\* value of a waterfall, slots the handler invocations it made with the state
\* of what each returned, results what the promise resolved to and err the
\* handler whose failure rejected it
NoTask ==
  [op |-> "none", em |-> "", state |-> "idle", matched |-> <<>>, idx |-> 0,
   args |-> <<>>, value |-> NoKey, slots |-> <<>>, results |-> <<>>, err |-> ""]

Channels == {"default", "c1"}   \* what createEventChannel() can return
RawEmitters == {"raw"}          \* a plain new EventEmitter2()
Emitters == Channels \cup RawEmitters

Init ==
  /\ protectedEvents = <<>>
  /\ symCount = 0
  /\ created = {"default"}      \* core.ts: export default createEventChannel()
  /\ events = [e \in Emitters |-> [k \in Keys |-> <<>>]]
  /\ last = NoOp
  /\ ret = FALSE
  /\ threw = FALSE
  /\ fired = <<>>
  /\ emits = <<>>
  /\ task = NoTask

\* user code calls Symbol(...) itself: a symbol the registry never saw
CreateSymbol ==
  /\ symCount < MaxSymbols
  /\ symCount' = symCount + 1
  /\ last' = [NoOp EXCEPT !.op = "symbol", !.key = Sym(symCount + 1)]
  /\ ret' = FALSE
  /\ threw' = FALSE
  /\ fired' = <<>>
  /\ emits' = <<>>
  /\ UNCHANGED <<protectedEvents, created, events, task>>

\* metaArg is the optional second argument; the parameter defaults to {}
registerProtectedEvent(name, metaArg) ==
  /\ symCount < MaxSymbols
  /\ LET meta == IF metaArg.def THEN metaArg.meta ELSE EmptyMeta
         sym == NewSymbol(name)
     IN  /\ symCount' = IF sym > symCount THEN sym ELSE symCount
         /\ protectedEvents' = MapSet(protectedEvents, sym, [name |-> name, meta |-> meta])
         /\ last' = [NoOp EXCEPT !.op = "register", !.key = Sym(sym),
                                 !.name = name, !.meta = metaArg]
  /\ ret' = FALSE
  /\ threw' = FALSE
  /\ fired' = <<>>
  /\ emits' = <<>>
  /\ UNCHANGED <<created, events, task>>

\* an unregistration that removes the listeners of the key from every emitter
unregisterAndDetach(sym) ==
  /\ protectedEvents' = MapDelete(protectedEvents, sym)
  /\ ret' = MapHas(protectedEvents, sym)
  /\ last' = [NoOp EXCEPT !.op = "unregister", !.key = Sym(sym)]
  /\ threw' = FALSE
  /\ fired' = <<>>
  /\ emits' = <<>>
  /\ events' = [e \in DOMAIN events |-> [events[e] EXCEPT ![Sym(sym)] = <<>>]]
  /\ UNCHANGED <<symCount, created, task>>

unregisterProtectedEvent(sym) ==
  /\ protectedEvents' = MapDelete(protectedEvents, sym)
  /\ ret' = MapHas(protectedEvents, sym)      \* Map.delete returns whether it removed
  /\ last' = [NoOp EXCEPT !.op = "unregister", !.key = Sym(sym)]
  /\ threw' = FALSE
  /\ fired' = <<>>
  /\ emits' = <<>>
  /\ UNCHANGED <<symCount, created, events, task>>

NextRegistry ==
  \/ CreateSymbol
  \/ \E name \in Names, metaArg \in MetaArgs : registerProtectedEvent(name, metaArg)
  \/ \E sym \in 1..symCount : unregisterProtectedEvent(sym)

SpecRegistry == Init /\ [][NextRegistry]_vars

-----------------------------------------------------------------------------
(* EventEmitter2, as far as this package uses it.  A listener is the function *)
(* stored in the emitter's list: fn is the handler it ends up calling, once   *)
(* tells whether it is the single-fire wrapper that once() stores (the        *)
(* wrapper keeps the handler as _origin and removes itself before calling     *)
(* it), wrap whether fn is called through the closure of a batch operation,   *)
(* (...args) => handler(symbol, ...args).                                     *)

Handlers == {"h1", "h2"}
\* the handler the single-fire subscriptions of a channel use
OnceHandlers == {"h1"}
NoListener == ""                 \* listener === undefined
ArgLists == {<<Str("x")>>}

Listener(h, once, wrap) == [fn |-> h, once |-> once, wrap |-> wrap]

TotalListeners ==
  Cardinality(UNION {{<<e, k, i>> : i \in 1..Len(events[e][k])} :
                       e \in Emitters, k \in Keys})

\* on / once: the listener goes to the end of the key's list
AddListener(ev, key, l) == [ev EXCEPT ![key] = Append(@, l)]

\* off(key, listener): the first entry that is the listener, or a once wrapper
\* of it, leaves the list; a batch closure is no function the caller holds
Matches(l, h) == l.fn = h /\ ~l.wrap
RemoveAt(ls, i) == SubSeq(ls, 1, i - 1) \o SubSeq(ls, i + 1, Len(ls))
RemoveEvery(ls, h) == SelectSeq(ls, LAMBDA l : ~Matches(l, h))
RemoveListener(ls, h) ==
  IF \E i \in 1..Len(ls) : Matches(ls[i], h)
    THEN RemoveAt(ls, CHOOSE i \in 1..Len(ls) :
                        /\ Matches(ls[i], h)
                        /\ \A j \in 1..(i - 1) : ~Matches(ls[j], h))
    ELSE ls
EmitterOff(ev, key, h) == [ev EXCEPT ![key] = RemoveListener(@, h)]
\* a removal that empties the list of every event name
ClearsEverything(ev, key) == [k \in DOMAIN ev |-> <<>>]
RemoveAllListeners(ev, key) == [ev EXCEPT ![key] = <<>>]

\* emit(key, ...args): every listener of the list as it is when emit starts is
\* called in order; a batch closure passes the key first
Call(l, key, args) == [fn |-> l.fn, args |-> IF l.wrap THEN <<key>> \o args ELSE args]
EmitCalls(ls, key, args) == [i \in 1..Len(ls) |-> Call(ls[i], key, args)]
\* an emit that takes the single-fire listeners of every key off
ConsumesAll(ev, key) == [k \in DOMAIN ev |-> SelectSeq(ev[k], LAMBDA l : ~l.once)]
AfterEmit(ev, key) == [ev EXCEPT ![key] = SelectSeq(@, LAMBDA l : ~l.once)]

-----------------------------------------------------------------------------
(* The channel facade: core.ts *)

createEventChannel ==
  \E c \in Channels \ created :
     /\ created' = created \cup {c}
     /\ events' = [events EXCEPT ![c] = [k \in Keys |-> <<>>]]  \* new EventEmitter2()
     /\ last' = [NoOp EXCEPT !.op = "create", !.em = c]
     /\ ret' = FALSE
     /\ threw' = FALSE
     /\ fired' = <<>>
     /\ emits' = <<>>
     /\ UNCHANGED <<protectedEvents, symCount, task>>

\* on, once and emit of a channel are the emitter's own methods, bound
on(e, key, h) ==
  /\ TotalListeners < MaxListeners
  /\ events' = [events EXCEPT ![e] = AddListener(@, key, Listener(h, FALSE, FALSE))]
  /\ last' = [NoOp EXCEPT !.op = "on"]
  /\ ret' = FALSE
  /\ threw' = FALSE
  /\ fired' = <<>>
  /\ emits' = <<>>
  /\ UNCHANGED <<protectedEvents, symCount, created, task>>

once(e, key, h) ==
  /\ TotalListeners < MaxListeners
  /\ events' = [events EXCEPT ![e] = AddListener(@, key, Listener(h, TRUE, FALSE))]
  /\ last' = [NoOp EXCEPT !.op = "once"]
  /\ ret' = FALSE
  /\ threw' = FALSE
  /\ fired' = <<>>
  /\ emits' = <<>>
  /\ UNCHANGED <<protectedEvents, symCount, created, task>>

emit(e, key, args) ==
  /\ fired' = EmitCalls(events[e][key], key, args)
  /\ events' = [events EXCEPT ![e] = AfterEmit(@, key)]
  /\ ret' = (Len(events[e][key]) > 0)
  /\ last' = [NoOp EXCEPT !.op = "emit"]
  /\ threw' = FALSE
  /\ emits' = <<>>
  /\ UNCHANGED <<protectedEvents, symCount, created, task>>

\* a facade that takes every symbol for protected, registered or not
StickyOff(ev, key, listener) ==
  IF IsSymbol(key)
    THEN ev
    ELSE IF listener # NoListener
           THEN EmitterOff(ev, key, listener)
           ELSE RemoveAllListeners(ev, key)
\* a facade whose off never consults the registry
UnguardedOff(ev, key, listener) ==
  IF listener # NoListener
    THEN EmitterOff(ev, key, listener)
    ELSE RemoveAllListeners(ev, key)
\* the listener lists of a channel after its off(eventName, listener)
ChannelOff(ev, key, listener) ==
  IF IsSymbol(key) /\ isProtectedEvent(key.sym)
    THEN ev
    ELSE IF listener # NoListener
           THEN EmitterOff(ev, key, listener)
           ELSE RemoveAllListeners(ev, key)

off(c, key, listener) ==
  /\ events' = [events EXCEPT ![c] = ChannelOff(@, key, listener)]
  /\ last' = [NoOp EXCEPT !.op = "off", !.em = c, !.key = key]
  /\ ret' = FALSE
  /\ threw' = FALSE
  /\ fired' = <<>>
  /\ emits' = <<>>
  /\ UNCHANGED <<protectedEvents, symCount, created, task>>

\* the keys a caller can hold: the symbols created so far, and a string name
KnownKeys == {Sym(n) : n \in 1..symCount} \cup {Str("evt")}

Next ==
  \/ symCount < MaxKeys /\ registerProtectedEvent("A", NoMeta)
  \/ \E sym \in 1..symCount : unregisterProtectedEvent(sym)
  \/ createEventChannel
  \/ \E c \in created, key \in KnownKeys, h \in Handlers : on(c, key, h)
  \/ \E c \in created, key \in KnownKeys, h \in OnceHandlers : once(c, key, h)
  \/ \E c \in created, key \in KnownKeys, args \in ArgLists : emit(c, key, args)
  \/ \E c \in created, key \in KnownKeys, h \in Handlers \cup {NoListener} :
        off(c, key, h)

Spec == Init /\ [][Next]_vars

-----------------------------------------------------------------------------
(* Pattern matching: utils.ts *)

\* new Minimatch(pattern).match(value) for patterns and values over letters,
\* digits and '-', with the wildcards * and ? (no '/', no leading '.', '!' or
\* '#', no braces, brackets or parentheses): the whole value is matched
RECURSIVE GlobMatch(_, _)
GlobMatch(p, v) ==
  IF p = <<>> THEN v = <<>>
  ELSE IF Head(p) = "*"
         THEN GlobMatch(Tail(p), v) \/ (v # <<>> /\ GlobMatch(p, Tail(v)))
  ELSE IF v = <<>> THEN FALSE
  ELSE (Head(p) = "?" \/ Head(p) = Head(v)) /\ GlobMatch(Tail(p), Tail(v))

\* a matcher whose '*' accepts a value that is absent
StarMatchesAbsent(value, pattern) ==
  IF pattern = <<"*">> THEN TRUE
  ELSE IF ~value.def \/ value.str = <<>> THEN FALSE
  ELSE GlobMatch(pattern, value.str)
matchPattern(value, pattern) ==
  IF ~value.def \/ value.str = <<>> THEN FALSE      \* if (!value) return false
  ELSE IF pattern = <<"*">> THEN TRUE
  ELSE GlobMatch(pattern, value.str)

-----------------------------------------------------------------------------
(* Batch operations: group-namespace.ts *)

Patterns == {<<"*">>, <<"n", "1">>, <<"?", "1">>}
BatchMetaArgs ==
  {SomeMeta([group |-> G1, namespace |-> N2]), SomeMeta([namespace |-> N1])}

\* a batch operation that reads the other field
OtherField(meta, field) ==
  Field(meta, IF field = "group" THEN "namespace" ELSE "group")
\* meta.group, meta.namespace
MetaField(meta, field) == Field(meta, field)

\* the symbols that listProtectedEvents().forEach visits and matchPattern
\* accepts, in list order
RECURSIVE MatchedOf(_, _, _)
MatchedOf(list, field, pattern) ==
  IF list = <<>> THEN <<>>
  ELSE (IF matchPattern(MetaField(Head(list).meta, field), pattern)
          THEN <<Head(list).symbol>> ELSE <<>>)
       \o MatchedOf(Tail(list), field, pattern)
\* a batch operation that reaches the key of the next registration as well
MatchedAndNext(field, pattern) ==
  MatchedOf(listProtectedEvents, field, pattern) \o <<symCount + 1>>
Matched(field, pattern) == MatchedOf(listProtectedEvents, field, pattern)

\* a batch attachment that subscribes to the first key whatever was matched
AttachAnyway(ev, syms, l) == AddListener(ev, Sym(1), l)
RECURSIVE AttachEach(_, _, _)
AttachEach(ev, syms, l) ==
  IF syms = <<>> THEN ev
  ELSE AttachEach(AddListener(ev, Sym(Head(syms)), l), Tail(syms), l)

RECURSIVE RemoveEach(_, _)
RemoveEach(ev, syms) ==
  IF syms = <<>> THEN ev
  ELSE RemoveEach(RemoveAllListeners(ev, Sym(Head(syms))), Tail(syms))

\* onGroup / onNamespace / onceGroup / onceNamespace.  With a priority the
\* listener is registered with the options object {priority}; whether the
\* emitter accepts that option or rejects the call is not decided by this
\* package, so both outcomes are possible.
BatchOn(opname, field, isOnce, pattern, h, e, prio) ==
  LET syms == Matched(field, pattern)
  IN  /\ TotalListeners + Len(syms) <= MaxListeners
      /\ \/ /\ events' = [events EXCEPT ![e] = AttachEach(@, syms, Listener(h, isOnce, TRUE))]
            /\ threw' = FALSE
         \/ /\ prio /\ syms # <<>>
            /\ events' = events
            /\ threw' = TRUE
      /\ last' = [NoOp EXCEPT !.op = opname]
      /\ ret' = FALSE
      /\ fired' = <<>>
      /\ emits' = <<>>
      /\ UNCHANGED <<protectedEvents, symCount, created, task>>

onGroup(pattern, h, e, prio) == BatchOn("onGroup", "group", FALSE, pattern, h, e, prio)
onNamespace(pattern, h, e, prio) == BatchOn("onNamespace", "namespace", FALSE, pattern, h, e, prio)
onceGroup(pattern, h, e, prio) == BatchOn("onceGroup", "group", TRUE, pattern, h, e, prio)
onceNamespace(pattern, h, e, prio) == BatchOn("onceNamespace", "namespace", TRUE, pattern, h, e, prio)

\* a batch removal that goes through the facade's guarded off
GuardedRemove(ev, syms) ==
  IF \A i \in 1..Len(syms) : isProtectedEvent(syms[i]) THEN ev ELSE RemoveEach(ev, syms)
\* eventEmitter.removeAllListeners(symbol) for every matched symbol
RemoveMatched(ev, syms) == RemoveEach(ev, syms)

\* offGroup / offNamespace.  A channel has no removeAllListeners member, so
\* on a channel the first matched record raises a TypeError.
BatchOff(opname, field, pattern, e) ==
  LET syms == Matched(field, pattern)
  IN  /\ IF e \in Channels /\ syms # <<>>
           THEN /\ events' = events
                /\ threw' = TRUE
           ELSE /\ events' = [events EXCEPT ![e] = RemoveMatched(@, syms)]
                /\ threw' = FALSE
      /\ last' = [NoOp EXCEPT !.op = opname]
      /\ ret' = FALSE
      /\ fired' = <<>>
      /\ emits' = <<>>
      /\ UNCHANGED <<protectedEvents, symCount, created, task>>

offGroup(pattern, e) == BatchOff("offGroup", "group", pattern, e)
offNamespace(pattern, e) == BatchOff("offNamespace", "namespace", pattern, e)

\* the calls of the batch attachments: every pattern without a priority, and
\* a call with a priority
BatchCalls ==
  {[pattern |-> p, prio |-> FALSE] : p \in Patterns} \cup {[pattern |-> <<"*">>, prio |-> TRUE]}

\* the batch attachments with direct listeners and emits
NextBatchOn ==
  \/ \E metaArg \in BatchMetaArgs :
        symCount < MaxBatchKeys /\ registerProtectedEvent("A", metaArg)
  \/ \E sym \in 1..symCount : unregisterProtectedEvent(sym)
  \/ \E e \in RawEmitters, k \in 1..symCount : on(e, Sym(k), "h2")
  \/ \E e \in RawEmitters, k \in 1..symCount, args \in ArgLists : emit(e, Sym(k), args)
  \/ \E call \in BatchCalls, e \in RawEmitters :
        onGroup(call.pattern, "h1", e, call.prio)
  \/ \E call \in BatchCalls, e \in RawEmitters :
        onNamespace(call.pattern, "h1", e, call.prio)

SpecBatchOn == Init /\ [][NextBatchOn]_vars

\* the batch removals on an emitter, with listeners attached in every way
NextBatchOff ==
  \/ \E metaArg \in BatchMetaArgs :
        symCount < MaxBatchKeys /\ registerProtectedEvent("A", metaArg)
  \/ \E sym \in 1..symCount : unregisterProtectedEvent(sym)
  \/ \E e \in RawEmitters, k \in 1..symCount : on(e, Sym(k), "h2")
  \/ \E e \in RawEmitters, k \in 1..symCount : once(e, Sym(k), "h2")
  \/ \E pattern \in Patterns, e \in RawEmitters : onGroup(pattern, "h1", e, FALSE)
  \/ \E pattern \in Patterns, e \in RawEmitters : onceNamespace(pattern, "h1", e, FALSE)
  \/ \E pattern \in Patterns, e \in RawEmitters : offGroup(pattern, e)
  \/ \E pattern \in Patterns, e \in RawEmitters : offNamespace(pattern, e)

SpecBatchOff == Init /\ [][NextBatchOff]_vars

-----------------------------------------------------------------------------
(* Handler invocations made by the batch emissions and the strategies *)

\* how one invocation of a handler ends: it returns a value, it returns a
\* promise that is still pending, or it throws
Outcomes == {"value", "promise", "throw"}

\* an emitter passed as an argument
Em(e) == [sym |-> 0, str |-> "", em |-> e]
\* the channel createEventChannel() makes inside a call: it has no listener
Fresh == "new"

\* utils.ts: an object with callable emit, on, once and off
isEventEmitter2(v) == "em" \in DOMAIN v

\* the members of an emitter object: a channel has the four of the facade
HasMember(e, m) == e \in RawEmitters \/ m \in {"emit", "on", "once", "off"}

\* a detection of the trailing emitter that leaves it among the arguments
KeepsEmitter(rest) ==
  IF rest # <<>> /\ isEventEmitter2(rest[Len(rest)])
    THEN [em |-> rest[Len(rest)].em, args |-> rest]
    ELSE [em |-> Fresh, args |-> rest]
\* args.length && isEventEmitter2(args[args.length - 1]) ? args.pop()
\*                                                       : createEventChannel()
TrailingEmitter(rest) ==
  IF rest # <<>> /\ isEventEmitter2(rest[Len(rest)])
    THEN [em |-> rest[Len(rest)].em, args |-> SubSeq(rest, 1, Len(rest) - 1)]
    ELSE [em |-> Fresh, args |-> rest]

\* a call without an emitter that goes to the exported default channel
DefaultListeners(e) == IF e = Fresh THEN events["default"] ELSE events[e]
ListenersOf(e) == IF e = Fresh THEN [k \in Keys |-> <<>>] ELSE events[e]

\* the value a handler computes from the first argument it is given
Ret(h, args) == Str((IF args = <<>> THEN "" ELSE args[1].str) \o "-" \o h)

\* the listeners that an emission on the key syms[k] calls, in call order
KeyPlan(ev, syms, k) ==
  LET key == Sym(syms[k])
  IN  [i \in 1..Len(ev[key]) |-> [k |-> k, key |-> key, pos |-> i, l |-> ev[key][i]]]
\* a dispatch that starts the emission on one key only
OneKeyPlan(ev, syms, k) == IF k > Len(syms) THEN <<>> ELSE KeyPlan(ev, syms, k)
\* those of the emissions on syms[k], syms[k + 1], ... one after the other
RECURSIVE Plan(_, _, _)
Plan(ev, syms, k) ==
  IF k > Len(syms) THEN <<>>
  ELSE KeyPlan(ev, syms, k) \o Plan(ev, syms, k + 1)

\* the first invocation that throws, or 0: nothing is called after it
ThrowAt(o) ==
  IF \E j \in DOMAIN o : o[j] = "throw"
    THEN CHOOSE j \in DOMAIN o :
           o[j] = "throw" /\ \A i \in 1..(j - 1) : o[i] # "throw"
    ELSE 0
Invoked(plan, o) == IF ThrowAt(o) = 0 THEN plan ELSE SubSeq(plan, 1, ThrowAt(o))

\* what the invocations that returned leave behind: a settled value or a
\* pending promise
Slot(p, outcome, args) ==
  [k |-> p.k, key |-> p.key, fn |-> p.l.fn, async |-> (outcome = "promise"),
   status |-> IF outcome = "promise" THEN "pending" ELSE "fulfilled",
   val |-> Ret(p.l.fn, args)]
SlotsOf(plan, o, args) ==
  LET n == IF ThrowAt(o) = 0 THEN Len(plan) ELSE ThrowAt(o) - 1
  IN  [j \in 1..n |-> Slot(plan[j], o[j], args)]

RECURSIVE Without(_, _)
Without(ls, drop) ==
  IF ls = <<>> THEN <<>>
  ELSE Without(SubSeq(ls, 1, Len(ls) - 1), drop)
       \o (IF Len(ls) \in drop THEN <<>> ELSE <<ls[Len(ls)]>>)

\* a once wrapper takes itself off the list when it is called
Detached(ev, invoked) ==
  [key \in DOMAIN ev |->
     Without(ev[key], {invoked[j].pos : j \in {i \in 1..Len(invoked) :
                          invoked[i].key = key /\ invoked[i].l.once}})]

Calls(invoked, args) ==
  [j \in 1..Len(invoked) |-> Call(invoked[j].l, invoked[j].key, args)]

\* the keys emit was called on: forEach stops at the emit that throws
EmittedKeys(syms, plan, o) ==
  IF ThrowAt(o) = 0 THEN syms ELSE SubSeq(syms, 1, plan[ThrowAt(o)].k)
Emissions(e, syms, args) ==
  [i \in 1..Len(syms) |-> [em |-> e, key |-> Sym(syms[i]), args |-> args]]

-----------------------------------------------------------------------------
(* Removal of the single-fire listeners: group-namespace.ts *)

\* a filter that takes every listener for a single-fire one
MarksEvery(l) == TRUE
\* (listener as { _once?: boolean })._once: EventEmitter2 keeps the handler
\* of a single-fire wrapper in _origin and sets no _once on it
HasOnceMark(l) == FALSE

\* listeners(symbol) without the marked ones, removeAllListeners(symbol), then
\* on(symbol, listener) for each of them: a wrapper attached again is the same
\* function and still takes itself off when it is called
Reattached(ev, key) ==
  LET regularListeners == SelectSeq(ev[key], LAMBDA l : ~HasOnceMark(l))
  IN  [RemoveAllListeners(ev, key) EXCEPT ![key] = @ \o regularListeners]

RECURSIVE ReattachEach(_, _)
ReattachEach(ev, syms) ==
  IF syms = <<>> THEN ev
  ELSE ReattachEach(Reattached(ev, Sym(Head(syms))), Tail(syms))

\* offOnceGroup / offOnceNamespace.  A channel has no listeners member, so on
\* a channel the first matched record raises a TypeError.
BatchOffOnce(opname, field, pattern, e) ==
  LET syms == Matched(field, pattern)
  IN  /\ IF syms # <<>> /\ ~HasMember(e, "listeners")
           THEN /\ events' = events
                /\ threw' = TRUE
           ELSE /\ events' = [events EXCEPT ![e] = ReattachEach(@, syms)]
                /\ threw' = FALSE
      /\ last' = [NoOp EXCEPT !.op = opname]
      /\ ret' = FALSE
      /\ fired' = <<>>
      /\ emits' = <<>>
      /\ UNCHANGED <<protectedEvents, symCount, created, task>>

offOnceGroup(pattern, e) == BatchOffOnce("offOnceGroup", "group", pattern, e)
offOnceNamespace(pattern, e) ==
  BatchOffOnce("offOnceNamespace", "namespace", pattern, e)

-----------------------------------------------------------------------------
(* Batch emissions: group-namespace.ts *)

\* emitGroup / emitNamespace: emit on every matched key; what the handlers
\* return is dropped
BatchEmit(opname, field, pattern, rest) ==
  LET target == TrailingEmitter(rest)
      e == target.em
      args == target.args
      syms == Matched(field, pattern)
      plan == Plan(ListenersOf(e), syms, 1)
  IN  \E o \in [1..Len(plan) -> {"value", "throw"}] :
         /\ emits' = Emissions(e, EmittedKeys(syms, plan, o), args)
         /\ fired' = Calls(Invoked(plan, o), args)
         /\ events' = IF e = Fresh THEN events
                      ELSE [events EXCEPT ![e] = Detached(@, Invoked(plan, o))]
         /\ threw' = (ThrowAt(o) # 0)
         /\ last' = [NoOp EXCEPT !.op = opname]
         /\ ret' = FALSE
         /\ UNCHANGED <<protectedEvents, symCount, created, task>>

emitGroup(pattern, rest) == BatchEmit("emitGroup", "group", pattern, rest)
emitNamespace(pattern, rest) == BatchEmit("emitNamespace", "namespace", pattern, rest)

\* EventEmitter2 emit returns whether the event had listeners
EmitResult(ls) == [kind |-> "boolean", val |-> Len(ls) > 0, then |-> FALSE]
\* an object with a callable then
isPromise(v) == v.kind = "object" /\ v.then

\* emitGroupAsync / emitNamespaceAsync: the results of emit that are promises
\* are awaited; an error thrown inside the async function rejects its promise
BatchEmitAsync(opname, field, pattern, rest) ==
  LET target == TrailingEmitter(rest)
      e == target.em
      args == target.args
      syms == Matched(field, pattern)
      ev == ListenersOf(e)
      plan == Plan(ev, syms, 1)
  IN  /\ task.state # "running"
      /\ \E o \in [1..Len(plan) -> Outcomes] :
            LET emitted == EmittedKeys(syms, plan, o)
                results == [i \in 1..Len(emitted) |-> EmitResult(ev[Sym(emitted[i])])]
                promises == SelectSeq(results, isPromise)
            IN  /\ emits' = Emissions(e, emitted, args)
                /\ fired' = Calls(Invoked(plan, o), args)
                /\ events' = IF e = Fresh THEN events
                             ELSE [events EXCEPT ![e] = Detached(@, Invoked(plan, o))]
                /\ task' = [NoTask EXCEPT
                              !.op = opname,
                              !.slots = SlotsOf(plan, o, args),
                              !.state = IF ThrowAt(o) # 0 THEN "rejected"
                                        ELSE IF promises = <<>> THEN "fulfilled"
                                        ELSE "running",
                              !.err = IF ThrowAt(o) # 0 THEN plan[ThrowAt(o)].l.fn ELSE ""]
      /\ threw' = FALSE
      /\ last' = [NoOp EXCEPT !.op = opname]
      /\ ret' = FALSE
      /\ UNCHANGED <<protectedEvents, symCount, created>>

emitGroupAsync(pattern, rest) == BatchEmitAsync("emitGroupAsync", "group", pattern, rest)
emitNamespaceAsync(pattern, rest) ==
  BatchEmitAsync("emitNamespaceAsync", "namespace", pattern, rest)

-----------------------------------------------------------------------------
(* Dispatch strategies: strategies.ts *)

Strategies == {"parallel", "waterfall", "series"}

\* Promise.all of what the listeners of the k-th matched key returned, as
\* emitAsync builds it: the values in listener order
EmissionResult(slots, k) ==
  LET mine == SelectSeq(slots, LAMBDA sl : sl.k = k)
  IN  [i \in 1..Len(mine) |-> mine[i].val]
\* a parallel dispatch that lists the emissions last to first
ReversedResults(t) ==
  [i \in 1..Len(t.matched) |-> EmissionResult(t.slots, Len(t.matched) + 1 - i)]
\* Promise.all(promises): one element per matched key, in the order of the keys
ParallelResults(t) ==
  [i \in 1..Len(t.matched) |-> EmissionResult(t.slots, i)]

AllFulfilled(slots, k) ==
  \A j \in 1..Len(slots) : slots[j].k = k => slots[j].status = "fulfilled"
AnyRejected(slots) == \E j \in 1..Len(slots) : slots[j].status = "rejected"
\* a series or waterfall that goes on while a promise is pending
NeverPending(slots) == FALSE
AnyPending(slots) == \E j \in 1..Len(slots) : slots[j].status = "pending"

\* a dispatch that takes a rejected promise for a fulfilled one
Swallows(t) ==
  IF t.state # "running" \/ AnyPending(t.slots) THEN t
  ELSE [t EXCEPT !.state = "fulfilled", !.results = ParallelResults(t)]
\* a dispatch that does not wait for what its handlers returned
Impatient(t) ==
  IF t.state # "running" THEN t
  ELSE [t EXCEPT !.state = "fulfilled", !.results = ParallelResults(t)]
\* what the awaiting function does once the promises it awaits changed:
\* Promise.all rejects with the first rejection and fulfils when all did
Propagate(t) ==
  IF t.state # "running" THEN t
  ELSE IF AnyRejected(t.slots) THEN [t EXCEPT !.state = "rejected"]
  ELSE IF t.op = "parallel"
    THEN IF AnyPending(t.slots) THEN t
         ELSE [t EXCEPT !.state = "fulfilled", !.results = ParallelResults(t)]
  ELSE IF t.op = "series"
    THEN IF ~AllFulfilled(t.slots, t.idx) THEN t
         ELSE [t EXCEPT !.results = Append(@, EmissionResult(t.slots, t.idx)),
                        !.state = IF t.idx = Len(t.matched) THEN "fulfilled"
                                  ELSE "running"]
  ELSE IF t.op = "waterfall"
    THEN LET sl == t.slots[Len(t.slots)]
         IN  IF sl.status # "fulfilled" THEN t
             ELSE [t EXCEPT !.value = sl.val, !.results = Append(@, sl.val)]
  ELSE t

\* the task after the invocations plan with the outcomes o
Dispatched(t, plan, o, args) ==
  IF ThrowAt(o) # 0
    THEN [t EXCEPT !.slots = @ \o SlotsOf(plan, o, args),
                   !.state = "rejected",
                   !.err = plan[ThrowAt(o)].l.fn]
    ELSE Propagate([t EXCEPT !.slots = @ \o SlotsOf(plan, o, args)])

Invoke(t, plan, o, args) ==
  /\ task' = Dispatched(t, plan, o, args)
  /\ fired' = Calls(Invoked(plan, o), args)
  /\ events' = IF t.em = Fresh THEN events
               ELSE [events EXCEPT ![t.em] = Detached(@, Invoked(plan, o))]
\* a member the emitter object does not have is called
Fail(t) ==
  /\ task' = [t EXCEPT !.state = "rejected", !.err = "TypeError"]
  /\ fired' = <<>>
  /\ events' = events
Finish(t) ==
  /\ task' = [t EXCEPT !.state = "fulfilled"]
  /\ fired' = <<>>
  /\ events' = events

\* a waterfall that hands the seed to every stage
SeedArgs(t) == t.args
\* const eventArgs = [...args]; eventArgs[0] = result
EventArgs(t) == <<t.value>> \o (IF t.args = <<>> THEN <<>> ELSE Tail(t.args))

\* a waterfall that ends at the first key without a listener
StopsAtGap(t, ev) ==
  IF t.idx < Len(t.matched) /\ ev[Sym(t.matched[t.idx + 1])] # <<>>
    THEN t.idx + 1 ELSE 0
\* the loop of the waterfall from where it stands: the next matched key for
\* which listeners(event) is not empty, or 0 when there is none
NextListening(t, ev) ==
  LET next == {j \in (t.idx + 1)..Len(t.matched) : ev[Sym(t.matched[j])] # <<>>}
  IN  IF next = {} THEN 0 ELSE CHOOSE i \in next : \A i2 \in next : i <= i2

\* a waterfall that calls every listener of the key
EveryHandler(plan) == plan
\* handlers[0]
FirstHandler(plan) == <<plan[1]>>

\* emitGroupWithStrategy from where it stands to its next await or its return
Run(t) ==
  LET ev == ListenersOf(t.em)
      n == Len(t.matched)
  IN  IF t.op = "parallel"
        THEN IF n > 0 /\ ~HasMember(t.em, "emitAsync") THEN Fail(t)
             ELSE LET plan == Plan(ev, t.matched, 1)
                  IN  \E o \in [1..Len(plan) -> Outcomes] : Invoke(t, plan, o, t.args)
      ELSE IF t.op = "series"
        THEN IF t.idx >= n THEN Finish(t)
             ELSE IF ~HasMember(t.em, "emitAsync") THEN Fail(t)
             ELSE LET plan == KeyPlan(ev, t.matched, t.idx + 1)
                  IN  \E o \in [1..Len(plan) -> Outcomes] :
                         Invoke([t EXCEPT !.idx = @ + 1], plan, o, t.args)
      ELSE \* waterfall
        IF t.idx < n /\ ~HasMember(t.em, "listeners") THEN Fail(t)
        ELSE LET j == NextListening(t, ev)
             IN  IF j = 0 THEN Finish(t)
                 ELSE LET eventArgs == EventArgs(t)
                          plan == FirstHandler(KeyPlan(ev, t.matched, j))
                      IN  \E o \in [1..Len(plan) -> Outcomes] :
                             Invoke([t EXCEPT !.idx = j], plan, o, eventArgs)

emitGroupWithStrategy(pattern, strategy, rest) ==
  LET target == TrailingEmitter(rest)
  IN  /\ task.state # "running"
      /\ Run([NoTask EXCEPT
                !.op = strategy, !.em = target.em, !.state = "running",
                !.matched = Matched("group", pattern), !.args = target.args,
                !.value = IF target.args = <<>> THEN NoKey ELSE target.args[1]])
      /\ last' = [NoOp EXCEPT !.op = "emitGroupWithStrategy"]
      /\ ret' = FALSE
      /\ threw' = FALSE
      /\ UNCHANGED <<protectedEvents, symCount, created>>
      /\ emits' = <<>>

\* a dispatch that drops, at each await, the keys unregistered meanwhile
ResumeRegistered ==
  /\ task.op \in {"series", "waterfall"}
  /\ task.state = "running"
  /\ ~AnyPending(task.slots)
  /\ Run([task EXCEPT !.matched = SelectSeq(@, isProtectedEvent)])
  /\ last' = [NoOp EXCEPT !.op = "resume"]
  /\ ret' = FALSE
  /\ threw' = FALSE
  /\ UNCHANGED <<protectedEvents, symCount, created>>
  /\ emits' = <<>>
\* the function goes on after an await whose promise was fulfilled
Resume ==
  /\ task.op \in {"series", "waterfall"}
  /\ task.state = "running"
  /\ ~AnyPending(task.slots)
  /\ Run(task)
  /\ last' = [NoOp EXCEPT !.op = "resume"]
  /\ ret' = FALSE
  /\ threw' = FALSE
  /\ UNCHANGED <<protectedEvents, symCount, created>>
      /\ emits' = <<>>

\* a promise that a handler returned is fulfilled or rejected
Settle(j, how) ==
  /\ j \in 1..Len(task.slots)
  /\ task.slots[j].status = "pending"
  /\ task' = Propagate([task EXCEPT
                          !.slots[j].status = how,
                          !.err = IF task.state = "running" /\ how = "rejected"
                                    THEN task.slots[j].fn ELSE @])
  /\ last' = [NoOp EXCEPT !.op = "settle", !.key = task.slots[j].key]
  /\ ret' = FALSE
  /\ threw' = FALSE
  /\ fired' = <<>>
  /\ emits' = <<>>
  /\ UNCHANGED <<protectedEvents, symCount, created, events>>

-----------------------------------------------------------------------------
(* The runs of the batch emissions and of the strategies *)

\* what follows the pattern in a call: the arguments, then the emitter if any
EmitArgs == {<<Str("x"), Em("raw")>>, <<Str("x"), Em("default")>>}
AsyncArgs == {<<Str("x"), Em("raw")>>, <<Str("x")>>}
EmitPatterns == {<<"*">>, <<"n", "1">>}

\* the synchronous batch emissions, on an emitter with regular listeners and
\* on a channel with single-fire listeners
NextBatchEmit ==
  \/ \E metaArg \in BatchMetaArgs :
        symCount < MaxBatchKeys /\ registerProtectedEvent("A", metaArg)
  \/ \E e \in RawEmitters, k \in 1..symCount : on(e, Sym(k), "h2")
  \/ \E e \in created, k \in 1..symCount : once(e, Sym(k), "h1")
  \/ \E pattern \in EmitPatterns, rest \in EmitArgs : emitGroup(pattern, rest)
  \/ \E pattern \in EmitPatterns, rest \in EmitArgs : emitNamespace(pattern, rest)

SpecBatchEmit == Init /\ [][NextBatchEmit]_vars

\* one asynchronous batch emission, followed until every promise it left
\* behind has settled; the listeners are attached before it
NextBatchEmitAsync ==
  \/ \E metaArg \in BatchMetaArgs :
        /\ task.state = "idle" /\ symCount < MaxBatchKeys
        /\ registerProtectedEvent("A", metaArg)
  \/ \E e \in RawEmitters, k \in 1..symCount, h \in Handlers :
        task.state = "idle" /\ on(e, Sym(k), h)
  \/ \E pattern \in EmitPatterns, rest \in AsyncArgs :
        task.state = "idle" /\ emitGroupAsync(pattern, rest)
  \/ \E pattern \in EmitPatterns, rest \in AsyncArgs :
        task.state = "idle" /\ emitNamespaceAsync(pattern, rest)
  \/ \E j \in 1..Len(task.slots), how \in {"fulfilled", "rejected"} : Settle(j, how)

SpecBatchEmitAsync == Init /\ [][NextBatchEmitAsync]_vars

\* the removals of the single-fire listeners on an emitter and on a channel,
\* and the other batch removals on a channel
NextOffOnce ==
  \/ \E metaArg \in BatchMetaArgs :
        symCount < MaxBatchKeys /\ registerProtectedEvent("A", metaArg)
  \/ \E e \in RawEmitters, k \in 1..symCount : on(e, Sym(k), "h2")
  \/ \E e \in RawEmitters \cup created, k \in 1..symCount : once(e, Sym(k), "h1")
  \/ \E e \in RawEmitters : onceGroup(<<"*">>, "h1", e, FALSE)
  \/ \E pattern \in EmitPatterns, e \in RawEmitters \cup created :
        offOnceGroup(pattern, e)
  \/ \E pattern \in EmitPatterns, e \in RawEmitters \cup created :
        offOnceNamespace(pattern, e)
  \/ \E pattern \in EmitPatterns, c \in created : offGroup(pattern, c)
  \/ \E pattern \in EmitPatterns, c \in created : offNamespace(pattern, c)

SpecOffOnce == Init /\ [][NextOffOnce]_vars

StrategyMetaArgs == {SomeMeta([group |-> G1]), SomeMeta([group |-> G2])}
StrategyPatterns == {<<"*">>, <<"?", "1">>}
StrategyArgs == {<<Str("s"), Em("raw")>>, <<Str("s")>>}

\* one dispatch with a strategy, followed to its end; the listeners are
\* attached before it
NextStrategy ==
  \/ \E metaArg \in StrategyMetaArgs :
        /\ task.state = "idle" /\ symCount < MaxBatchKeys
        /\ registerProtectedEvent("A", metaArg)
  \/ \E e \in RawEmitters, k \in 1..symCount, h \in Handlers :
        task.state = "idle" /\ on(e, Sym(k), h)
  \/ \E pattern \in StrategyPatterns, strategy \in Strategies, rest \in StrategyArgs :
        task.state = "idle" /\ emitGroupWithStrategy(pattern, strategy, rest)
  \/ Resume
  \/ \E j \in 1..Len(task.slots), how \in {"fulfilled", "rejected"} : Settle(j, how)

SpecStrategy == Init /\ [][NextStrategy]_vars

-----------------------------------------------------------------------------
(* Claims about the channel facade, checked under Spec *)

OffArgs == Handlers \cup {NoListener}
Regular(ls) == SelectSeq(ls, LAMBDA l : ~l.once)
IsPrefix(a, b) == Len(a) <= Len(b) /\ SubSeq(b, 1, Len(a)) = a
Count(ls, h) == Cardinality({i \in 1..Len(ls) : Matches(ls[i], h)})
Others(ls, h) == SelectSeq(ls, LAMBDA l : ~Matches(l, h))

\* C1: while a key k is registered, off(k, h) and off(k) on any channel leave
\* every listener list as it is and raise no error; no step detaches a
\* regular listener of k, a single-fire listener leaves only by the emit that
\* calls it, and every emit on k calls every listener attached to k.
C1_ProtectedOff ==
  [][\A c \in created, k \in 1..symCount :
       isProtectedEvent(k) =>
         LET before == events[c][Sym(k)]
             after == events'[c][Sym(k)]
             emitted == \E args \in ArgLists : emit(c, Sym(k), args)
         IN  /\ (last'.op = "off" /\ last'.em = c /\ last'.key = Sym(k)) =>
                   (events' = events /\ ~threw')
             /\ isProtectedEvent(k)' => IsPrefix(Regular(before), Regular(after))
             /\ (last'.op = "emit" /\ emitted) =>
                   /\ Len(fired') = Len(before)
                   /\ \A i \in 1..Len(before) : fired'[i].fn = before[i].fn
                   /\ after = Regular(before)
             /\ ~(last'.op = "emit" /\ emitted) => IsPrefix(before, after)]_vars
C1_Witness ==
  /\ last.op = "off"
  /\ IsSymbol(last.key) /\ isProtectedEvent(last.key.sym)
  /\ Len(events[last.em][last.key]) = 2
  /\ events[last.em][last.key][1].once
  /\ ~events[last.em][last.key][2].once

\* C2 as stated: after off(k, h) on a key that is not registered (any more),
\* an emit on k does not call h.
C2_Original ==
  [][\A c \in created, k \in 1..symCount, h \in Handlers :
       (/\ last'.op = "off" /\ last'.em = c /\ last'.key = Sym(k)
        /\ off(c, Sym(k), h) /\ ~isProtectedEvent(k)) =>
          Count(events'[c][Sym(k)], h) = 0]_vars

\* C2: on a key that is not registered (any more), off(k, h) takes the first
\* attachment of h out of k's list and leaves the rest as it is, so that an
\* emit on k calls h no more if h was attached once; off(k) empties k's list.
C2_UnregisteredOff ==
  [][\A c \in created, k \in 1..symCount, h \in OffArgs :
       (/\ last'.op = "off" /\ last'.em = c /\ last'.key = Sym(k)
        /\ off(c, Sym(k), h) /\ ~isProtectedEvent(k)) =>
          LET before == events[c][Sym(k)]
              after == events'[c][Sym(k)]
          IN  IF h = NoListener
                THEN after = <<>>
                ELSE /\ Count(before, h) > 0 =>
                           /\ Count(after, h) = Count(before, h) - 1
                           /\ \E i \in 1..Len(before) :
                                 /\ Matches(before[i], h)
                                 /\ \A j \in 1..(i - 1) : ~Matches(before[j], h)
                                 /\ after = RemoveAt(before, i)
                     /\ Count(before, h) = 0 => after = before
                     /\ Count(before, h) <= 1 =>
                           \A args \in ArgLists :
                              \A i \in 1..Len(after) :
                                 EmitCalls(after, Sym(k), args)[i].fn # h]_vars
C2_Witness ==
  /\ last.op = "off"
  /\ IsSymbol(last.key) /\ ~isProtectedEvent(last.key.sym)
  /\ Len(events[last.em][last.key]) = 1
  /\ TotalListeners = 1

\* C3: in every state, for every key k and every channel that has a listener
\* the call would detach, off on k changes nothing exactly when
\* isProtectedEvent(k): all channels agree, whenever they were created.
C3_GlobalProtection ==
  \A k \in 1..symCount, c \in created, h \in OffArgs :
     LET ls == events[c][Sym(k)]
         concerned == IF h = NoListener THEN Len(ls) > 0 ELSE Count(ls, h) > 0
     IN  concerned =>
           ((ChannelOff(events[c], Sym(k), h) = events[c]) <=> isProtectedEvent(k))
C3_Witness ==
  /\ created = Channels
  /\ \E k \in 1..symCount :
       /\ isProtectedEvent(k)
       /\ \A c \in created : Len(events[c][Sym(k)]) > 0
  /\ last.op = "off"

\* C26: on a channel, for an event name that is not protected (a string, or
\* a symbol that is not registered at the call), off(name, h) takes one
\* listener off the name's list, an attachment of h, and leaves every other
\* listener of the name attached in the same order, and off(name) without a
\* handler leaves no listener on the name; in both cases no error is raised
\* and the listeners of every other name and of every other emitter are as
\* before.
C26_UnprotectedOff ==
  [][last'.op = "off" =>
       \A h \in OffArgs :
          LET c == last'.em
              key == last'.key
              before == events[c][key]
              after == events'[c][key]
          IN  (/\ ~(IsSymbol(key) /\ isProtectedEvent(key.sym))
               /\ events'[c] = ChannelOff(events[c], key, h)) =>
                 /\ ~threw'
                 /\ IF h = NoListener
                      THEN after = <<>>
                      ELSE /\ Others(after, h) = Others(before, h)
                           /\ Count(after, h) =
                                (IF Count(before, h) > 0 THEN Count(before, h) - 1 ELSE 0)
                 /\ \A key2 \in Keys \ {key} : events'[c][key2] = events[c][key2]
                 /\ \A c2 \in Emitters \ {c} : events'[c2] = events[c2]]_vars
\* an off on a string name that left one listener on the name while the
\* channel has a listener on a registered key as well
C26_Witness ==
  /\ last.op = "off"
  /\ last.key = Str("evt")
  /\ Len(events[last.em][Str("evt")]) = 1
  /\ \E k \in 1..symCount :
        isProtectedEvent(k) /\ Len(events[last.em][Sym(k)]) = 1

-----------------------------------------------------------------------------
(* Claims about the batch operations, checked under SpecBatchOn and          *)
(* SpecBatchOff                                                             *)

BatchOnOps == {"onGroup", "onNamespace"}
BatchOffOps == {"offGroup", "offNamespace"}
FieldOf(opname) == IF opname \in {"onGroup", "offGroup"} THEN "group" ELSE "namespace"
\* the group or namespace of a registered key matches the pattern
KeyMatches(k, field, pattern) ==
  matchPattern(Field(getProtectedEventMeta(k).meta, field), pattern)

\* C9: by onGroup(pattern, h, emitter), for every key k registered at the
\* call: if k's group matches the pattern, an emit on k calls h(k, ...args),
\* once more than before the call; if it does not match or is not set, k's
\* listener list is as before, so the call adds no invocation of h.  The same
\* for onNamespace with the namespace field, each reading its own field only.
C9_BatchOn ==
  [][\A pattern \in Patterns, e \in RawEmitters, h \in Handlers :
       /\ (/\ last'.op \in BatchOnOps /\ ~threw'
           /\ \/ last'.op = "onGroup" /\ onGroup(pattern, h, e, FALSE)
              \/ last'.op = "onNamespace" /\ onNamespace(pattern, h, e, FALSE)) =>
             \A k \in 1..symCount :
               isProtectedEvent(k) =>
                  LET before == events[e][Sym(k)]
                      after == events'[e][Sym(k)]
                  IN  IF KeyMatches(k, FieldOf(last'.op), pattern)
                        THEN \A args \in ArgLists :
                               EmitCalls(after, Sym(k), args) =
                                 Append(EmitCalls(before, Sym(k), args),
                                        [fn |-> h, args |-> <<Sym(k)>> \o args])
                        ELSE after = before
       /\ last'.op = "emit" =>
             \A k \in 1..symCount, args \in ArgLists :
                emit(e, Sym(k), args) =>
                  /\ fired' = EmitCalls(events[e][Sym(k)], Sym(k), args)
                  /\ \A i \in 1..Len(events[e][Sym(k)]) :
                        events[e][Sym(k)][i].wrap =>
                          fired'[i] = [fn |-> events[e][Sym(k)][i].fn,
                                       args |-> <<Sym(k)>> \o args]]_vars
C9_Witness ==
  /\ last.op = "emit"
  /\ Len(protectedEvents) = 2
  /\ \E k \in 1..symCount :
       /\ isProtectedEvent(k)
       /\ fired = <<[fn |-> "h2", args |-> <<Str("x")>>],
                    [fn |-> "h1", args |-> <<Sym(k), Str("x")>>]>>
  /\ \E k \in 1..symCount : isProtectedEvent(k) /\ events["raw"][Sym(k)] = <<>>

\* C10: offGroup(pattern, emitter) on an EventEmitter2 leaves no listener on
\* any registered key whose group matches the pattern, however the listeners
\* were attached and although the key is protected, so that an emit on such
\* a key calls nothing; every other listener list is as before, and no error
\* is raised.  The same for offNamespace with the namespace field.
C10_BatchOff ==
  [][\A pattern \in Patterns, e \in RawEmitters :
       (/\ last'.op \in BatchOffOps
        /\ \/ last'.op = "offGroup" /\ offGroup(pattern, e)
           \/ last'.op = "offNamespace" /\ offNamespace(pattern, e)) =>
          /\ ~threw'
          /\ \A x \in Emitters \ {e} : events'[x] = events[x]
          /\ \A key \in Keys :
                IF /\ IsSymbol(key) /\ isProtectedEvent(key.sym)
                   /\ KeyMatches(key.sym, FieldOf(last'.op), pattern)
                  THEN /\ events'[e][key] = <<>>
                       /\ \A args \in ArgLists :
                             EmitCalls(events'[e][key], key, args) = <<>>
                  ELSE events'[e][key] = events[e][key]]_vars
C10_Witness ==
  /\ last.op = "offGroup" /\ ~threw
  /\ TotalListeners = 1
  /\ \E k \in 1..symCount :
       /\ isProtectedEvent(k)
       /\ Field(getProtectedEventMeta(k).meta, "group") = Undefined
       /\ Len(events["raw"][Sym(k)]) = 1
  /\ \E k \in 1..symCount :
       /\ isProtectedEvent(k)
       /\ Field(getProtectedEventMeta(k).meta, "group") = Some(G1)
       /\ events["raw"][Sym(k)] = <<>>

-----------------------------------------------------------------------------
(* Claims about the registry, checked under SpecRegistry *)

Registered(k) == last'.op = "register" /\ last'.key = Sym(k)
Unregistered(k) == last'.op = "unregister" /\ last'.key = Sym(k)

\* C4: isProtectedEvent(k) becomes true by the register call that returns k,
\* becomes false by unregisterProtectedEvent(k) and changes at no other step;
\* unregisterProtectedEvent(k) returns true exactly when k was registered at
\* the call, and on a key that is not registered it returns false and leaves
\* the registry as it was.
C4_Membership ==
  [][\A k \in Symbols :
       /\ Registered(k) => ~isProtectedEvent(k) /\ isProtectedEvent(k)'
       /\ Unregistered(k) =>
             /\ ~isProtectedEvent(k)'
             /\ ret' = isProtectedEvent(k)
             /\ ~isProtectedEvent(k) => protectedEvents' = protectedEvents
       /\ ~(Registered(k) \/ Unregistered(k)) =>
             (isProtectedEvent(k)' <=> isProtectedEvent(k))]_vars
C4_Witness ==
  /\ last.op = "unregister" /\ ~ret
  /\ last.key.sym <= symCount
  /\ Len(protectedEvents) > 0

\* C5: the key returned by registerProtectedEvent is none of the symbols
\* created before (also when the name was used before, also when those keys
\* were unregistered since); keys of the same name keep their own metadata,
\* and unregistering one key leaves every other key registered with the
\* metadata it had.
C5_FreshKeys ==
  [][\A k \in Symbols :
       /\ Registered(k) =>
             /\ k \notin 1..symCount
             /\ \A j \in 1..symCount :
                   getProtectedEventMeta(j)' = getProtectedEventMeta(j)
       /\ Unregistered(k) =>
             \A j \in Symbols \ {k} :
                getProtectedEventMeta(j)' = getProtectedEventMeta(j)]_vars
C5_Witness ==
  /\ last.op = "unregister" /\ ret
  /\ \E i \in 1..Len(protectedEvents) :
       /\ protectedEvents[i].name = "A"
       /\ protectedEvents[i].symbol > last.key.sym
       /\ protectedEvents[i].meta = [group |-> G1, namespace |-> N2]

\* C6: getProtectedEventMeta(k) is, from the register call that returns k on,
\* the metadata passed to that call (all its fields; the empty mapping when
\* the argument was omitted); no step but unregisterProtectedEvent(k) changes
\* it; for a key that is not registered the result is undefined.
C6_Meta ==
  [][\A k \in Symbols :
       /\ Registered(k) =>
             getProtectedEventMeta(k)' =
               SomeMeta(IF last'.meta.def THEN last'.meta.meta ELSE EmptyMeta)
       /\ (isProtectedEvent(k) /\ ~Unregistered(k)) =>
             getProtectedEventMeta(k)' = getProtectedEventMeta(k)
       /\ (Unregistered(k) \/ (~isProtectedEvent(k) /\ ~Registered(k))) =>
             getProtectedEventMeta(k)' = NoMeta]_vars
C6_Witness ==
  /\ last.op = "register"
  /\ getProtectedEventMeta(last.key.sym) =
       SomeMeta([group |-> G2, namespace |-> N1, foo |-> <<"x">>])
  /\ \E k \in 1..symCount : ~isProtectedEvent(k)

\* The filters of the claim: each field given or not
Filters ==
  [group : {Undefined, Some(G1), Some(G2)}, namespace : {Undefined, Some(N1), Some(N2)}]
FilterAccepts(filter, e) ==
  /\ filter.group.def => Field(e.meta, "group") = filter.group
  /\ filter.namespace.def => Field(e.meta, "namespace") = filter.namespace

\* C7: listProtectedEvents(filter) returns exactly the registered records
\* whose group and namespace equal the fields the filter gives (all records
\* when it gives none).
C7_FilteredList ==
  \A filter \in Filters :
     listProtectedEventsWith(filter) =
       SelectSeq(listProtectedEvents, LAMBDA e : FilterAccepts(filter, e))

\* C8: listProtectedEvents() holds one record for each registered key and for
\* no other key, without duplicates, in the order in which the keys were
\* registered (symbols are numbered in the order of their creation).
C8_ListOrder ==
  LET l == listProtectedEvents
  IN  /\ \A i, j \in 1..Len(l) : i < j => l[i].symbol < l[j].symbol
      /\ \A k \in Symbols : isProtectedEvent(k) <=> \E i \in 1..Len(l) : l[i].symbol = k
      /\ \A i \in 1..Len(l) : getProtectedEventMeta(l[i].symbol) = SomeMeta(l[i].meta)
C8_Witness ==
  /\ last.op = "unregister" /\ ret
  /\ Len(listProtectedEvents) >= 2
  /\ listProtectedEvents[1].symbol > last.key.sym

-----------------------------------------------------------------------------
(* Claims about the batch emissions, checked under SpecBatchEmit and          *)
(* SpecBatchEmitAsync                                                         *)

BatchEmitOps == {"emitGroup", "emitNamespace"}
BatchEmitAsyncOps == {"emitGroupAsync", "emitNamespaceAsync"}
EmitFieldOf(opname) ==
  IF opname \in {"emitGroup", "emitGroupAsync"} THEN "group" ELSE "namespace"
Fns(ls) == [i \in 1..Len(ls) |-> ls[i].fn]
\* the handlers that emissions call, one emission after the other
RECURSIVE FnsOf(_, _)
FnsOf(ev, ems) ==
  IF ems = <<>> THEN <<>> ELSE Fns(ev[Head(ems).key]) \o FnsOf(ev, Tail(ems))

\* C11: a call emitGroup(pattern, ...args, emitter) that returns has emitted
\* on the given emitter exactly once for every registered key whose group
\* matches the pattern and on no other key, in the order of the registry,
\* every time with the supplied args without the emitter, and the handlers
\* called are the listeners of those keys, each with exactly these args.  The
\* same for emitNamespace with the namespace field.
C11_BatchEmit ==
  [][\A pattern \in EmitPatterns, rest \in EmitArgs :
       (/\ last'.op \in BatchEmitOps /\ ~threw'
        /\ \/ last'.op = "emitGroup" /\ emitGroup(pattern, rest)
           \/ last'.op = "emitNamespace" /\ emitNamespace(pattern, rest)) =>
          LET e == rest[Len(rest)].em
              args == SubSeq(rest, 1, Len(rest) - 1)
              hit(k) == /\ isProtectedEvent(k)
                        /\ KeyMatches(k, EmitFieldOf(last'.op), pattern)
          IN  /\ \A i \in 1..Len(emits') :
                    /\ emits'[i].em = e
                    /\ emits'[i].args = args
                    /\ hit(emits'[i].key.sym)
              /\ \A k \in 1..symCount :
                    hit(k) =>
                      Cardinality({i \in 1..Len(emits') : emits'[i].key = Sym(k)}) = 1
              /\ \A i, j \in 1..Len(emits') :
                    i < j => MapIndex(protectedEvents, emits'[i].key.sym)
                               < MapIndex(protectedEvents, emits'[j].key.sym)
              /\ Fns(fired') = FnsOf(events[e], emits')
              /\ \A i \in 1..Len(fired') : fired'[i].args = args]_vars
C11_Witness ==
  /\ last.op = "emitNamespace"
  /\ ~threw
  /\ Len(emits) = 1
  /\ Len(fired) = 1
  /\ fired[1].args = <<Str("x")>>
  /\ \E k \in 1..symCount :
        /\ isProtectedEvent(k)
        /\ Sym(k) # emits[1].key
        /\ events[emits[1].em][Sym(k)] # <<>>

C19_AsyncRejection ==
  (task.op \in BatchEmitAsyncOps /\ AnyRejected(task.slots)) =>
     task.state = "rejected"

-----------------------------------------------------------------------------
(* Claims about the strategies, checked under SpecStrategy *)

DispatchOps == {"emitGroupWithStrategy", "resume"}
\* the listener lists of the keys the dispatch matched, on its emitter
MatchedListeners(t) ==
  [i \in 1..Len(t.matched) |-> events[t.em][Sym(t.matched[i])]]

\* C13: in a waterfall on an emitter, the listener of the first matched key
\* is called with the seed as its first argument and the listener of every
\* later key with the value that the listener of the key before it returned
\* (awaited); when every matched key has a listener, the promise resolves to
\* exactly these return values, one per matched key, in the order of the
\* keys.
C13_Waterfall ==
  [][(task'.op = "waterfall" /\ task'.em \in RawEmitters) =>
       LET seed == task'.args[1]
           ls == MatchedListeners(task')
           n == Len(task'.matched)
       IN  /\ (last'.op \in DispatchOps /\ fired' # <<>>) =>
                 /\ Len(fired') = 1
                 /\ fired'[1].fn = ls[task'.idx][1].fn
                 /\ fired'[1].args =
                      <<IF last'.op = "resume" /\ task.results # <<>>
                          THEN task.results[Len(task.results)]
                          ELSE seed>>
           /\ (/\ task'.state = "fulfilled"
               /\ \A i \in 1..n : ls[i] # <<>>) =>
                 /\ Len(task'.results) = n
                 /\ \A i \in 1..n :
                       task'.results[i] =
                         Ret(ls[i][1].fn,
                             <<IF i = 1 THEN seed ELSE task'.results[i - 1]>>)]_vars
C13_Witness ==
  /\ task.op = "waterfall"
  /\ task.state = "fulfilled"
  /\ Len(task.matched) = 2
  /\ task.results = <<Str("s-h1"), Str("s-h1-h2")>>

\* what the listeners of a list return when called with args, in list order
Returns(ls, args) == [j \in 1..Len(ls) |-> Ret(ls[j].fn, args)]

\* C14: when a parallel dispatch on an emitter is fulfilled, its result has
\* one element per matched key and the i-th element is the result of the
\* emission on the i-th matched key, the values its listeners returned, in
\* whatever order the promises of the handlers were settled.
C14_ParallelOrder ==
  (task.op = "parallel" /\ task.em \in RawEmitters /\ task.state = "fulfilled") =>
     /\ Len(task.results) = Len(task.matched)
     /\ \A i \in 1..Len(task.matched) :
           task.results[i] = Returns(MatchedListeners(task)[i], task.args)
\* the promise of the first key's handler is the last one to be settled
C14_Witness ==
  /\ task.op = "parallel"
  /\ task.state = "fulfilled"
  /\ Len(task.matched) = 2
  /\ last.op = "settle"
  /\ last.key = Sym(task.matched[1])
  /\ task.results = <<<<Str("s-h1")>>, <<Str("s-h2")>>>>

Pending(t) == {j \in 1..Len(t.slots) : t.slots[j].status = "pending"}
Settled(t) == t.state \in {"fulfilled", "rejected"}

\* C15 as stated: the promise of a parallel dispatch is not settled while a
\* promise returned by a handler it invoked is pending.
C15_Original ==
  (task.op = "parallel" /\ Settled(task)) => Pending(task) = {}
\* C15: the promise of a parallel dispatch is not fulfilled while a promise
\* returned by a handler it invoked is pending, and it stays pending as long
\* as no handler threw and no such promise was rejected; it is rejected as
\* soon as one of them is, whether or not others are still pending.
C15_ParallelSettles ==
  task.op = "parallel" =>
     /\ task.state = "fulfilled" =>
           \A j \in 1..Len(task.slots) : task.slots[j].status = "fulfilled"
     /\ (task.state = "running") <=>
           /\ Pending(task) # {}
           /\ \A j \in 1..Len(task.slots) : task.slots[j].status # "rejected"
           /\ task.err = ""            \* no handler threw
C15_Witness ==
  /\ task.op = "parallel"
  /\ task.state = "rejected"
  /\ Len(task.matched) = 2
  /\ Pending(task) # {}
  /\ last.op = "settle"

\* C16: in a series or waterfall dispatch the handlers are invoked in the
\* order of the matched keys, no handler is invoked while a promise returned
\* by a handler of an earlier key is pending, and so the pending promises all
\* belong to one key, the last one dispatched.
C16_OneKeyInFlight ==
  [][task'.op \in {"series", "waterfall"} =>
       /\ \A a, b \in 1..Len(task'.slots) :
             a < b => task'.slots[a].k <= task'.slots[b].k
       /\ \A a \in Pending(task') : task'.slots[a].k = task'.idx
       /\ (last'.op \in DispatchOps /\ fired' # <<>>) =>
             /\ \A j \in 1..Len(task.slots) : task.slots[j].status = "fulfilled"
             /\ \A j \in 1..Len(task.slots) : task.slots[j].k < task'.idx]_vars
C16_Witness ==
  /\ task.op = "series"
  /\ last.op = "resume"
  /\ fired # <<>>
  /\ task.idx = 2
  /\ Len(task.slots) = 2
  /\ task.slots[1].async
  /\ task.slots[1].k = 1

\* C18: when a handler invoked by a dispatch on an emitter throws, or a
\* promise it returned is rejected while the dispatch is running, the promise
\* of the dispatch is rejected with that error; it is never fulfilled when a
\* handler it invoked has failed.
C18_FailurePropagates ==
  [][(task'.op \in Strategies /\ task'.em \in RawEmitters) =>
       /\ (/\ last'.op \in DispatchOps
           /\ Len(fired') > Len(task'.slots) - (IF last'.op = "resume"
                                                  THEN Len(task.slots) ELSE 0)) =>
             /\ task'.state = "rejected"
             /\ task'.err = fired'[Len(fired')].fn
       /\ (last'.op = "settle" /\ task.state = "running") =>
             \A j \in 1..Len(task.slots) :
                (task.slots[j].status = "pending" /\ task'.slots[j].status = "rejected") =>
                   /\ task'.state = "rejected"
                   /\ task'.err = task.slots[j].fn
       /\ (\E j \in 1..Len(task'.slots) : task'.slots[j].status = "rejected") =>
             task'.state = "rejected"
       /\ task.state = "rejected" => task'.state = "rejected"]_vars
C18_Witness ==
  /\ task.op = "series"
  /\ task.em \in RawEmitters
  /\ task.state = "rejected"
  /\ last.op = "settle"
  /\ task.err = "h2"
  /\ task.idx = 2

\* the positions of the matched keys that have a listener on the emitter
Listening(t) ==
  {i \in 1..Len(t.matched) : MatchedListeners(t)[i] # <<>>}

\* C27: a waterfall on an emitter passes over the matched keys without
\* listeners: every key it invokes a listener of has one, the keys between the
\* one invoked before and the one invoked now have none, and the listener
\* receives the last value produced so far, the seed if there is none; the
\* results are the values of the invocations made, one per key with a
\* listener, so that a fulfilled waterfall has as many results as matched keys
\* with a listener.
C27_WaterfallSkips ==
  [][(task'.op = "waterfall" /\ task'.em \in RawEmitters) =>
       LET ls == MatchedListeners(task')
           before == IF last'.op = "resume" THEN task ELSE NoTask
       IN  /\ (last'.op \in DispatchOps /\ fired' # <<>>) =>
                 /\ task'.idx \in Listening(task')
                 /\ \A i \in (before.idx + 1)..(task'.idx - 1) : i \notin Listening(task')
                 /\ fired'[1].args[1] =
                      (IF before.results = <<>> THEN task'.args[1]
                       ELSE before.results[Len(before.results)])
                 /\ Len(before.results) =
                      Cardinality({i \in Listening(task') : i < task'.idx})
           /\ \A j \in 1..Len(task'.slots) : task'.slots[j].k \in Listening(task')
           /\ Len(task'.results) <= Len(task'.slots)
           /\ \A j \in 1..Len(task'.results) : task'.results[j] = task'.slots[j].val
           /\ task'.state = "fulfilled" =>
                 Len(task'.results) = Cardinality(Listening(task'))]_vars
\* the first matched key has no listener and the second one has: its
\* listener received the seed and the result has one element
C27_Witness ==
  /\ task.op = "waterfall"
  /\ task.em \in RawEmitters
  /\ task.state = "fulfilled"
  /\ Len(task.matched) = 2
  /\ Listening(task) = {2}
  /\ task.results = <<Str("s-h1")>>

\* C28: a waterfall on an emitter invokes, for a matched key, one listener
\* only, the first of the key's list, however many the key has: a step of the
\* dispatch calls exactly that one, no key gets a second invocation, and every
\* result is the value the first listener of its key returned for the value
\* before it (the seed for the first), so that the other listeners add
\* nothing to the running value or to the results.
C28_FirstListenerOnly ==
  [][(task'.op = "waterfall" /\ task'.em \in RawEmitters) =>
       LET ls == MatchedListeners(task')
           first(j) == ls[task'.slots[j].k][1].fn
       IN  /\ (last'.op \in DispatchOps /\ fired' # <<>>) =>
                 /\ Len(fired') = 1
                 /\ fired'[1].fn = ls[task'.idx][1].fn
           /\ \A a, b \in 1..Len(task'.slots) :
                 a # b => task'.slots[a].k # task'.slots[b].k
           /\ \A j \in 1..Len(task'.slots) : task'.slots[j].fn = first(j)
           /\ \A j \in 1..Len(task'.results) :
                 task'.results[j] =
                   Ret(first(j), <<IF j = 1 THEN task'.args[1] ELSE task'.results[j - 1]>>)
           /\ task'.state = "fulfilled" =>
                 Len(task'.slots) = Cardinality(Listening(task'))]_vars
\* the matched key has two listeners and the waterfall ended with the value
\* of the first one alone
C28_Witness ==
  /\ task.op = "waterfall"
  /\ task.em \in RawEmitters
  /\ task.state = "fulfilled"
  /\ Len(task.matched) = 1
  /\ Fns(MatchedListeners(task)[1]) = <<"h2", "h1">>
  /\ task.results = <<Str("s-h2")>>
  /\ Len(task.slots) = 1

\* the handlers of all the matched keys of a dispatch, key after key
AllHandlers(t) ==
  FnsOf(events[t.em], [i \in 1..Len(t.matched) |-> [key |-> Sym(t.matched[i])]])

\* C29: the call of a parallel dispatch on an emitter invokes the listeners of
\* every matched key, key after key, before it awaits anything: unless a
\* handler throws, all of them have been invoked when the call reaches its
\* await, whatever promises they returned and however long these stay
\* pending, and no handler is invoked at a later step, when a promise is
\* settled.
C29_ParallelInitiates ==
  [][(task'.op = "parallel" /\ task'.em \in RawEmitters) =>
       /\ last'.op = "emitGroupWithStrategy" =>
             /\ IsPrefix(Fns(fired'), AllHandlers(task'))
             /\ task'.err = "" =>
                   /\ Fns(fired') = AllHandlers(task')
                   /\ Fns(task'.slots) = AllHandlers(task')
       /\ last'.op # "emitGroupWithStrategy" =>
             /\ fired' = <<>>
             /\ Fns(task'.slots) = Fns(task.slots)]_vars
\* the promise of the first key's handler is pending and the handler of the
\* second key has been invoked and has returned
C29_Witness ==
  /\ task.op = "parallel"
  /\ task.em \in RawEmitters
  /\ task.state = "running"
  /\ last.op = "emitGroupWithStrategy"
  /\ Len(task.matched) = 2
  /\ Len(task.slots) = 2
  /\ task.slots[1].k = 1 /\ task.slots[1].status = "pending"
  /\ task.slots[2].k = 2 /\ task.slots[2].status = "fulfilled"
  /\ Len(fired) = 2

-----------------------------------------------------------------------------
(* Claims about the batch removals, checked under SpecOffOnce *)

OffOnceOps == {"offOnceGroup", "offOnceNamespace"}
RemovalFieldOf(opname) ==
  IF opname \in {"offGroup", "offOnceGroup"} THEN "group" ELSE "namespace"

\* C17: after offOnceGroup(pattern, emitter) on an emitter, no single-fire
\* listener, attached by once or by onceGroup, is left on a registered key
\* whose group matches the pattern, so that the next emit on such a key calls
\* none of them.  The same for offOnceNamespace with the namespace field.
C17_OffOnce ==
  [][\A pattern \in EmitPatterns, e \in RawEmitters :
       (/\ last'.op \in OffOnceOps
        /\ \/ last'.op = "offOnceGroup" /\ offOnceGroup(pattern, e)
           \/ last'.op = "offOnceNamespace" /\ offOnceNamespace(pattern, e)) =>
          \A k \in 1..symCount :
             (/\ isProtectedEvent(k)
              /\ KeyMatches(k, RemovalFieldOf(last'.op), pattern)) =>
                /\ \A i \in 1..Len(events'[e][Sym(k)]) : ~events'[e][Sym(k)][i].once
                /\ \A args \in ArgLists :
                      EmitCalls(events'[e][Sym(k)], Sym(k), args) =
                        EmitCalls(Regular(events[e][Sym(k)]), Sym(k), args)]_vars

\* C30: offOnceGroup(pattern, emitter), on an EventEmitter2 or on a channel,
\* leaves the regular listeners of every key, matched or not, attached as they
\* were, each once and in the same order, so that the next emit on a key
\* calls them as before; the list of a key that is not registered or does not
\* match is as before, and so are the lists of every other emitter.  The same
\* for offOnceNamespace with the namespace field.
C30_KeepsRegular ==
  [][\A pattern \in EmitPatterns, e \in RawEmitters \cup created :
       (/\ last'.op \in OffOnceOps
        /\ \/ last'.op = "offOnceGroup" /\ offOnceGroup(pattern, e)
           \/ last'.op = "offOnceNamespace" /\ offOnceNamespace(pattern, e)) =>
          /\ \A key \in Keys :
                /\ Regular(events'[e][key]) = Regular(events[e][key])
                /\ \A args \in ArgLists :
                      EmitCalls(Regular(events'[e][key]), key, args) =
                        EmitCalls(Regular(events[e][key]), key, args)
                /\ ~(/\ IsSymbol(key) /\ isProtectedEvent(key.sym)
                      /\ KeyMatches(key.sym, RemovalFieldOf(last'.op), pattern)) =>
                      events'[e][key] = events[e][key]
          /\ \A x \in Emitters \ {e} : events'[x] = events[x]]_vars
\* after offOnceGroup, with two keys registered, a key of the matching group
\* has a regular listener behind a single-fire one
C30_Witness ==
  /\ last.op = "offOnceGroup" /\ ~threw
  /\ \E k \in 1..symCount :
        /\ isProtectedEvent(k) /\ KeyMatches(k, "group", <<"*">>)
        /\ Len(events["raw"][Sym(k)]) = 2
        /\ events["raw"][Sym(k)][1].once
        /\ ~events["raw"][Sym(k)][2].once
  /\ Len(protectedEvents) = 2

\* C20: offGroup(pattern, c), offNamespace(pattern, c) and
\* offOnceGroup(pattern, c) on a channel c raise no error, and the first two
\* leave no listener on the registered keys of c that match the pattern.
C20_ChannelRemoval ==
  [][\A pattern \in EmitPatterns, c \in created :
       (\/ last'.op = "offGroup" /\ offGroup(pattern, c)
        \/ last'.op = "offNamespace" /\ offNamespace(pattern, c)
        \/ last'.op = "offOnceGroup" /\ offOnceGroup(pattern, c)) =>
          /\ ~threw'
          /\ last'.op \in BatchOffOps =>
                \A k \in 1..symCount :
                   (/\ isProtectedEvent(k)
                    /\ KeyMatches(k, RemovalFieldOf(last'.op), pattern)) =>
                      events'[c][Sym(k)] = <<>>]_vars

-----------------------------------------------------------------------------
(* Claims about calls without an emitter, checked under SpecStrategy *)

\* C21: the promise of emitGroupWithStrategy called without a trailing
\* emitter is never rejected, whatever the strategy and the registry.
C21_DefaultChannel ==
  (task.op \in Strategies /\ task.em = Fresh) => task.state # "rejected"

-----------------------------------------------------------------------------
(* The batch operations called one after the other on an emitter, the last    *)
(* call being an asynchronous one that is followed to its end                 *)

NextSequence ==
  \/ \E metaArg \in BatchMetaArgs :
        /\ task.state = "idle" /\ symCount < MaxKeys
        /\ registerProtectedEvent("A", metaArg)
  \/ \E pattern \in EmitPatterns, e \in RawEmitters :
        task.state = "idle" /\ onGroup(pattern, "h1", e, FALSE)
  \/ \E pattern \in EmitPatterns, e \in RawEmitters :
        task.state = "idle" /\ onNamespace(pattern, "h1", e, FALSE)
  \/ \E pattern \in EmitPatterns, e \in RawEmitters :
        task.state = "idle" /\ onceGroup(pattern, "h1", e, FALSE)
  \/ \E pattern \in EmitPatterns, e \in RawEmitters :
        task.state = "idle" /\ onceNamespace(pattern, "h1", e, FALSE)
  \/ \E pattern \in EmitPatterns, e \in RawEmitters \cup created :
        task.state = "idle" /\ offGroup(pattern, e)
  \/ \E pattern \in EmitPatterns, e \in RawEmitters \cup created :
        task.state = "idle" /\ offNamespace(pattern, e)
  \/ \E pattern \in EmitPatterns, e \in RawEmitters \cup created :
        task.state = "idle" /\ offOnceGroup(pattern, e)
  \/ \E pattern \in EmitPatterns, e \in RawEmitters \cup created :
        task.state = "idle" /\ offOnceNamespace(pattern, e)
  \/ \E pattern \in EmitPatterns, rest \in EmitArgs :
        task.state = "idle" /\ emitGroup(pattern, rest)
  \/ \E pattern \in EmitPatterns, rest \in EmitArgs :
        task.state = "idle" /\ emitNamespace(pattern, rest)
  \/ \E pattern \in EmitPatterns, rest \in AsyncArgs :
        task.state = "idle" /\ emitGroupAsync(pattern, rest)
  \/ \E pattern \in EmitPatterns, rest \in AsyncArgs :
        task.state = "idle" /\ emitNamespaceAsync(pattern, rest)
  \/ \E pattern \in EmitPatterns, strategy \in Strategies, rest \in StrategyArgs :
        task.state = "idle" /\ emitGroupWithStrategy(pattern, strategy, rest)
  \/ Resume
  \/ \E j \in 1..Len(task.slots), how \in {"fulfilled", "rejected"} : Settle(j, how)

SpecSequence == Init /\ [][NextSequence]_vars

-----------------------------------------------------------------------------
(* Claims about calls that match nothing, checked under SpecSequence *)

\* no registered key has a value of the field that the pattern matches
NoMatch(field, pattern) ==
  \A k \in 1..symCount : isProtectedEvent(k) => ~KeyMatches(k, field, pattern)
\* the step changed no listener list, raised no error and called no handler
Quiet == events' = events /\ ~threw' /\ fired' = <<>>

\* C22: when no registered key matches the pattern (the registry may be
\* empty), onGroup, onceGroup, offGroup, offOnceGroup and their namespace
\* variants leave every listener list as it is and raise no error, emitGroup,
\* emitNamespace, emitGroupAsync and emitNamespaceAsync emit on no key, call no
\* handler and the asynchronous ones are fulfilled, and emitGroupWithStrategy
\* is fulfilled with the empty sequence for every strategy, with or without
\* an emitter.
C22_NoMatch ==
  [][\A pattern \in EmitPatterns :
       LET g == NoMatch("group", pattern)
           n == NoMatch("namespace", pattern)
       IN  /\ \A e \in RawEmitters :
                /\ (last'.op = "onGroup" /\ g /\ onGroup(pattern, "h1", e, FALSE))
                      => Quiet
                /\ (last'.op = "onNamespace" /\ n /\ onNamespace(pattern, "h1", e, FALSE))
                      => Quiet
                /\ (last'.op = "onceGroup" /\ g /\ onceGroup(pattern, "h1", e, FALSE))
                      => Quiet
                /\ (last'.op = "onceNamespace" /\ n
                    /\ onceNamespace(pattern, "h1", e, FALSE)) => Quiet
           /\ \A e \in RawEmitters \cup created :
                /\ (last'.op = "offGroup" /\ g /\ offGroup(pattern, e)) => Quiet
                /\ (last'.op = "offNamespace" /\ n /\ offNamespace(pattern, e)) => Quiet
                /\ (last'.op = "offOnceGroup" /\ g /\ offOnceGroup(pattern, e)) => Quiet
                /\ (last'.op = "offOnceNamespace" /\ n /\ offOnceNamespace(pattern, e))
                      => Quiet
           /\ \A rest \in EmitArgs :
                /\ (last'.op = "emitGroup" /\ g /\ emitGroup(pattern, rest))
                      => (Quiet /\ emits' = <<>>)
                /\ (last'.op = "emitNamespace" /\ n /\ emitNamespace(pattern, rest))
                      => (Quiet /\ emits' = <<>>)
           /\ \A rest \in AsyncArgs :
                /\ (last'.op = "emitGroupAsync" /\ g /\ emitGroupAsync(pattern, rest))
                      => (Quiet /\ emits' = <<>> /\ task'.state = "fulfilled")
                /\ (last'.op = "emitNamespaceAsync" /\ n
                    /\ emitNamespaceAsync(pattern, rest))
                      => (Quiet /\ emits' = <<>> /\ task'.state = "fulfilled")
           /\ \A strategy \in Strategies, rest \in StrategyArgs :
                (last'.op = "emitGroupWithStrategy" /\ g
                 /\ emitGroupWithStrategy(pattern, strategy, rest))
                   => (Quiet /\ task'.state = "fulfilled" /\ task'.results = <<>>)]_vars
\* a waterfall that matched nothing although a key is registered and has a
\* listener on the emitter
C22_Witness ==
  /\ last.op = "emitGroupWithStrategy"
  /\ task.op = "waterfall"
  /\ task.em \in RawEmitters
  /\ task.state = "fulfilled"
  /\ task.matched = <<>>
  /\ \E k \in 1..symCount : isProtectedEvent(k) /\ events["raw"][Sym(k)] # <<>>

-----------------------------------------------------------------------------
(* The batch operations over records that lack a field or have it empty *)

\* registerProtectedEvent(name), (name, {group: 'g1'}) and
\* (name, {group: '', namespace: 'n1'})
FieldMetaArgs ==
  {NoMeta, SomeMeta([group |-> G1]), SomeMeta([group |-> <<>>, namespace |-> N1])}
FieldArgs == {<<Str("s"), Em("raw")>>}

NextFields ==
  \/ \E metaArg \in FieldMetaArgs :
        /\ task.state = "idle" /\ symCount < MaxBatchKeys
        /\ registerProtectedEvent("A", metaArg)
  \/ \E e \in RawEmitters, k \in 1..symCount :
        task.state = "idle" /\ on(e, Sym(k), "h2")
  \/ \E pattern \in StrategyPatterns, e \in RawEmitters :
        task.state = "idle" /\ onGroup(pattern, "h1", e, FALSE)
  \/ \E pattern \in StrategyPatterns, e \in RawEmitters :
        task.state = "idle" /\ onNamespace(pattern, "h1", e, FALSE)
  \/ \E pattern \in StrategyPatterns, e \in RawEmitters :
        task.state = "idle" /\ offGroup(pattern, e)
  \/ \E pattern \in StrategyPatterns, e \in RawEmitters :
        task.state = "idle" /\ offNamespace(pattern, e)
  \/ \E pattern \in StrategyPatterns, rest \in FieldArgs :
        task.state = "idle" /\ emitGroup(pattern, rest)
  \/ \E pattern \in StrategyPatterns, rest \in FieldArgs :
        task.state = "idle" /\ emitNamespace(pattern, rest)
  \/ \E pattern \in StrategyPatterns, strategy \in Strategies, rest \in FieldArgs :
        task.state = "idle" /\ emitGroupWithStrategy(pattern, strategy, rest)
  \/ Resume
  \/ \E j \in 1..Len(task.slots), how \in {"fulfilled", "rejected"} : Settle(j, how)

SpecFields == Init /\ [][NextFields]_vars

-----------------------------------------------------------------------------
(* Claims about the presence of a field, checked under SpecFields *)

GroupOps == {"onGroup", "offGroup", "emitGroup", "emitGroupWithStrategy", "resume"}
NamespaceOps == {"onNamespace", "offNamespace", "emitNamespace"}
\* the key is registered and its record does not have the field
Unset(k, field) ==
  isProtectedEvent(k) /\ ~Field(getProtectedEventMeta(k).meta, field).def
\* the step did nothing on the key: its listeners are as before, no emit was
\* made on it and the dispatch neither collected it nor called a listener of it
Untouched(k) ==
  /\ \A e \in Emitters : events'[e][Sym(k)] = events[e][Sym(k)]
  /\ \A i \in 1..Len(emits') : emits'[i].key # Sym(k)
  /\ \A i \in 1..Len(task'.matched) : task'.matched[i] # k
  /\ \A j \in 1..Len(task'.slots) : task'.slots[j].key # Sym(k)

\* C23: a key whose record has no group is left alone by every group-based
\* operation (onGroup, offGroup, emitGroup, emitGroupWithStrategy) whatever
\* the pattern, '*' included, and a key whose record has no namespace by every
\* namespace-based one; a batch emission calls the listeners of the keys it
\* emits on only, so a key with neither field is never attached to, emitted
\* on or cleared.
C23_UnsetField ==
  [][\A k \in 1..symCount :
       /\ (last'.op \in GroupOps /\ Unset(k, "group")) => Untouched(k)
       /\ (last'.op \in NamespaceOps /\ Unset(k, "namespace")) => Untouched(k)
       /\ last'.op \in {"emitGroup", "emitNamespace"} =>
             Len(fired') <= Len(FnsOf(events["raw"], emits'))]_vars
\* emitGroup('*') emitted on one key and called its listener, while a key
\* registered without metadata has a listener too
C23_Witness ==
  /\ last.op = "emitGroup"
  /\ Len(emits) = 1
  /\ Len(fired) = 1
  /\ \E k \in 1..symCount :
       /\ Unset(k, "group") /\ Unset(k, "namespace")
       /\ events["raw"][Sym(k)] # <<>>

\* the key is registered and its record has the field, whatever its value
IsSet(k, field) ==
  isProtectedEvent(k) /\ Field(getProtectedEventMeta(k).meta, field).def

\* C24: a batch operation called with the pattern '*' applies to every
\* registered key whose record has the field set, to a string of any length:
\* onGroup('*') attaches the handler to it, offGroup('*') clears it,
\* emitGroup('*') emits on it and emitGroupWithStrategy('*') collects it; the
\* same for the namespace-based operations with the namespace field.
C24_StarMatches ==
  [][\A e \in RawEmitters, k \in 1..symCount :
       /\ IsSet(k, "group") =>
            /\ (last'.op = "onGroup" /\ onGroup(<<"*">>, "h1", e, FALSE)) =>
                  events'[e][Sym(k)] =
                    Append(events[e][Sym(k)], Listener("h1", FALSE, TRUE))
            /\ (last'.op = "offGroup" /\ offGroup(<<"*">>, e)) =>
                  events'[e][Sym(k)] = <<>>
            /\ (last'.op = "emitGroup" /\ ~threw'
                /\ \E rest \in FieldArgs : emitGroup(<<"*">>, rest)) =>
                  \E i \in 1..Len(emits') : emits'[i].key = Sym(k)
            /\ (last'.op = "emitGroupWithStrategy"
                /\ \E strategy \in Strategies, rest \in FieldArgs :
                      emitGroupWithStrategy(<<"*">>, strategy, rest)) =>
                  \E i \in 1..Len(task'.matched) : task'.matched[i] = k
       /\ IsSet(k, "namespace") =>
            /\ (last'.op = "onNamespace" /\ onNamespace(<<"*">>, "h1", e, FALSE)) =>
                  events'[e][Sym(k)] =
                    Append(events[e][Sym(k)], Listener("h1", FALSE, TRUE))
            /\ (last'.op = "offNamespace" /\ offNamespace(<<"*">>, e)) =>
                  events'[e][Sym(k)] = <<>>
            /\ (last'.op = "emitNamespace" /\ ~threw'
                /\ \E rest \in FieldArgs : emitNamespace(<<"*">>, rest)) =>
                  \E i \in 1..Len(emits') : emits'[i].key = Sym(k)]_vars

-----------------------------------------------------------------------------
(* The single-fire batch attachments with direct emits *)

NextBatchOnce ==
  \/ \E metaArg \in BatchMetaArgs :
        symCount < MaxBatchKeys /\ registerProtectedEvent("A", metaArg)
  \/ \E e \in RawEmitters, k \in 1..symCount : on(e, Sym(k), "h2")
  \/ \E e \in RawEmitters, k \in 1..symCount, args \in ArgLists : emit(e, Sym(k), args)
  \/ \E pattern \in Patterns, e \in RawEmitters : onceGroup(pattern, "h1", e, FALSE)
  \/ \E pattern \in Patterns, e \in RawEmitters : onceNamespace(pattern, "h1", e, FALSE)

SpecBatchOnce == Init /\ [][NextBatchOnce]_vars

-----------------------------------------------------------------------------
(* Claims about the single-fire batch attachments, checked under SpecBatchOnce *)

BatchOnceOps == {"onceGroup", "onceNamespace"}
OnceFieldOf(opname) == IF opname = "onceGroup" THEN "group" ELSE "namespace"
\* the single-fire listeners of a list that a batch operation attached
OnceClosures(ls) == SelectSeq(ls, LAMBDA l : l.once /\ l.wrap)

\* C25: onceGroup(pattern, h, emitter) adds to every registered key k whose
\* group matches one listener that the next emit on k calls as h(k, ...args),
\* and leaves the other keys as they are; an emit on k calls every such
\* listener of k with the key first, leaves none of them on k, so that no
\* later emit on k calls it, and leaves the listeners of every other key,
\* single-fire ones included, attached.  The same for onceNamespace.
C25_OnceGroup ==
  [][\A e \in RawEmitters :
       /\ \A pattern \in Patterns :
            (/\ last'.op \in BatchOnceOps
             /\ \/ last'.op = "onceGroup" /\ onceGroup(pattern, "h1", e, FALSE)
                \/ last'.op = "onceNamespace" /\ onceNamespace(pattern, "h1", e, FALSE)) =>
               \A k \in 1..symCount :
                  isProtectedEvent(k) =>
                     LET before == events[e][Sym(k)]
                         after == events'[e][Sym(k)]
                     IN  IF KeyMatches(k, OnceFieldOf(last'.op), pattern)
                           THEN /\ \A args \in ArgLists :
                                      EmitCalls(after, Sym(k), args) =
                                        Append(EmitCalls(before, Sym(k), args),
                                               [fn |-> "h1", args |-> <<Sym(k)>> \o args])
                                /\ Len(OnceClosures(after)) = Len(OnceClosures(before)) + 1
                                /\ Regular(after) = Regular(before)
                           ELSE after = before
       /\ \A k \in 1..symCount, args \in ArgLists :
            (last'.op = "emit" /\ emit(e, Sym(k), args)) =>
               LET before == events[e][Sym(k)]
                   after == events'[e][Sym(k)]
               IN  /\ Len(fired') = Len(before)
                   /\ \A i \in 1..Len(before) :
                         (before[i].once /\ before[i].wrap) =>
                            fired'[i] = [fn |-> before[i].fn, args |-> <<Sym(k)>> \o args]
                   /\ OnceClosures(after) = <<>>
                   /\ EmitCalls(after, Sym(k), args) =
                        EmitCalls(Regular(before), Sym(k), args)
                   /\ \A k2 \in 1..symCount :
                         k2 # k => events'[e][Sym(k2)] = events[e][Sym(k2)]]_vars
\* h fired on one of two keys that onceGroup had matched and is still
\* attached to the other
C25_Witness ==
  /\ last.op = "emit"
  /\ \E k, k2 \in 1..symCount :
       /\ k # k2
       /\ fired = <<[fn |-> "h1", args |-> <<Sym(k), Str("x")>>]>>
       /\ events["raw"][Sym(k)] = <<>>
       /\ OnceClosures(events["raw"][Sym(k2)]) # <<>>
       /\ KeyMatches(k, "group", <<"*">>) /\ KeyMatches(k2, "group", <<"*">>)

-----------------------------------------------------------------------------
(* The batch attachments with registrations after them and direct emits *)

NextLateKeys ==
  \/ \E metaArg \in BatchMetaArgs :
        symCount < MaxBatchKeys /\ registerProtectedEvent("A", metaArg)
  \/ \E e \in RawEmitters, k \in 1..symCount, args \in ArgLists : emit(e, Sym(k), args)
  \/ \E pattern \in EmitPatterns, e \in RawEmitters : onGroup(pattern, "h1", e, FALSE)
  \/ \E pattern \in EmitPatterns, e \in RawEmitters : onNamespace(pattern, "h1", e, FALSE)
  \/ \E pattern \in EmitPatterns, e \in RawEmitters : onceGroup(pattern, "h1", e, FALSE)
  \/ \E pattern \in EmitPatterns, e \in RawEmitters :
        onceNamespace(pattern, "h1", e, FALSE)

SpecLateKeys == Init /\ [][NextLateKeys]_vars

-----------------------------------------------------------------------------
(* Claims about keys registered after a batch attachment, checked under       *)
(* SpecLateKeys                                                               *)

BatchAttachOps == {"onGroup", "onNamespace", "onceGroup", "onceNamespace"}
\* the listeners of a list that a batch operation attached
Closures(ls) == SelectSeq(ls, LAMBDA l : l.wrap)
\* the key has a record whose group or namespace the pattern matches
MatchesEither(k, pattern) ==
  KeyMatches(k, "group", pattern) \/ KeyMatches(k, "namespace", pattern)

\* C31: a key that registerProtectedEvent returns has no listener of an
\* earlier onGroup, onNamespace, onceGroup or onceNamespace, whatever its group
\* and namespace, so that an emit on it does not call the batch handler; the
\* handler comes to a key only by the step of a batch attachment, and then only
\* to keys registered at that step, and an emit on a key calls the batch
\* handler exactly for the batch listeners that are on the key's list.
C31_LateKeys ==
  [][\A k \in KeySymbols, e \in RawEmitters :
       LET before == events[e][Sym(k)]
           after == events'[e][Sym(k)]
       IN  /\ Registered(k) =>
                /\ after = <<>>
                /\ \A args \in ArgLists : EmitCalls(after, Sym(k), args) = <<>>
           /\ last'.op \notin BatchAttachOps =>
                Len(Closures(after)) <= Len(Closures(before))
           /\ (last'.op \in BatchAttachOps /\ ~isProtectedEvent(k)) => after = before
           /\ (last'.op = "emit" /\ \E args \in ArgLists : emit(e, Sym(k), args)) =>
                Len(SelectSeq(fired', LAMBDA c : c.fn = "h1")) = Len(Closures(before))]_vars
\* an emit on a key that was registered after the batch attachments called
\* nothing, although its record matches and an earlier key has the handler
C31_Witness ==
  /\ last.op = "emit"
  /\ fired = <<>>
  /\ \E k, k2 \in 1..symCount :
       /\ k < k2
       /\ MatchesEither(k, <<"*">>) /\ MatchesEither(k2, <<"*">>)
       /\ Closures(events["raw"][Sym(k)]) # <<>>
       /\ events["raw"][Sym(k2)] = <<>>
       /\ getProtectedEventMeta(k) = getProtectedEventMeta(k2)

-----------------------------------------------------------------------------
(* One dispatch with a strategy while the registry changes: whatever runs    *)
(* between two awaits of emitGroupWithStrategy, a handler of the dispatch or  *)
(* other code, registers and unregisters keys and attaches listeners          *)

NextInterleaved ==
  \/ \E metaArg \in StrategyMetaArgs : registerProtectedEvent("A", metaArg)
  \/ \E k \in 1..symCount :
        task.state = "running" /\ isProtectedEvent(k) /\ unregisterProtectedEvent(k)
  \/ \E e \in RawEmitters, k \in 1..symCount :
        /\ task.state \in {"idle", "running"}
        /\ events[e][Sym(k)] = <<>>
        /\ on(e, Sym(k), "h1")
  \/ \E strategy \in Strategies, rest \in FieldArgs :
        task.state = "idle" /\ emitGroupWithStrategy(<<"*">>, strategy, rest)
  \/ Resume
  \/ \E j \in 1..Len(task.slots), how \in {"fulfilled", "rejected"} : Settle(j, how)

SpecInterleaved == Init /\ [][NextInterleaved]_vars

-----------------------------------------------------------------------------
(* Claims about the registry changing during a dispatch, checked under        *)
(* SpecInterleaved                                                            *)

\* the promises that the step added to the ones of the dispatch
NewSlots == SubSeq(task'.slots, Len(task.slots) + 1, Len(task'.slots))
\* the matched keys after the one dispatched last that have a listener now
Ahead(t) == {j \in (t.idx + 1)..Len(t.matched) : events[t.em][Sym(t.matched[j])] # <<>>}

\* C32: emitGroupWithStrategy fixes the matched keys when it is called: no
\* registration and no unregistration during the dispatch changes them. When a
\* series goes on after an await it dispatches the next of these keys, and a
\* waterfall the next of them that has a listener, whether or not that key is
\* still registered; every handler invoked by the dispatch belongs to one of
\* the keys matched at the call, so a key registered during the dispatch is
\* not dispatched.
C32_FixedKeys ==
  [][/\ task.state = "running" => task'.matched = task.matched
     /\ \A j \in 1..Len(task'.slots) : task'.slots[j].k \in 1..Len(task'.matched)
                                       /\ task'.slots[j].key = Sym(task'.matched[task'.slots[j].k])
     /\ (last'.op = "resume" /\ task.op = "series" /\ task.idx < Len(task.matched)) =>
          /\ task'.idx = task.idx + 1
          /\ fired' # <<>> <=> events[task.em][Sym(task.matched[task.idx + 1])] # <<>>
          /\ \A j \in 1..Len(NewSlots) : NewSlots[j].k = task.idx + 1
     /\ (last'.op = "resume" /\ task.op = "waterfall" /\ Ahead(task) # {}) =>
          /\ task'.idx \in Ahead(task)
          /\ \A j \in Ahead(task) : task'.idx <= j
          /\ Len(fired') = 1
          /\ \A j \in 1..Len(NewSlots) : NewSlots[j].k = task'.idx]_vars
\* a series or waterfall has just invoked the handler of its second key,
\* which was unregistered after the call, while a key registered after the
\* call has a listener and the same group and was not dispatched
C32_Witness ==
  /\ last.op = "resume"
  /\ task.op \in {"series", "waterfall"}
  /\ task.idx = 2
  /\ fired # <<>>
  /\ ~isProtectedEvent(task.matched[2])
  /\ \E k \in 1..symCount :
       /\ isProtectedEvent(k)
       /\ \A j \in 1..Len(task.matched) : task.matched[j] # k
       /\ events["raw"][Sym(k)] # <<>>
       /\ KeyMatches(k, "group", <<"*">>)

-----------------------------------------------------------------------------
(* The batch operations and direct emits after unregistrations; the calls    *)
(* are made while no dispatch is in progress                                  *)

NextUnregistered ==
  \/ \E metaArg \in BatchMetaArgs :
        /\ task.state = "idle" /\ symCount < MaxBatchKeys
        /\ registerProtectedEvent("A", metaArg)
  \/ \E k \in 1..symCount :
        task.state = "idle" /\ isProtectedEvent(k) /\ unregisterProtectedEvent(k)
  \/ \E e \in RawEmitters, k \in 1..symCount :
        task.state = "idle" /\ on(e, Sym(k), "h2")
  \/ \E e \in RawEmitters, k \in 1..symCount, args \in ArgLists :
        task.state = "idle" /\ emit(e, Sym(k), args)
  \/ \E pattern \in EmitPatterns, e \in RawEmitters :
        task.state = "idle" /\ offGroup(pattern, e)
  \/ \E pattern \in EmitPatterns, e \in RawEmitters :
        task.state = "idle" /\ offNamespace(pattern, e)
  \/ \E pattern \in EmitPatterns, e \in RawEmitters :
        task.state = "idle" /\ offOnceGroup(pattern, e)
  \/ \E pattern \in EmitPatterns, rest \in FieldArgs :
        task.state = "idle" /\ emitGroup(pattern, rest)
  \/ \E pattern \in EmitPatterns, rest \in FieldArgs :
        task.state = "idle" /\ emitNamespace(pattern, rest)
  \/ \E pattern \in EmitPatterns, rest \in FieldArgs :
        task.state = "idle" /\ emitGroupAsync(pattern, rest)
  \/ \E pattern \in EmitPatterns, strategy \in Strategies, rest \in FieldArgs :
        task.state = "idle" /\ emitGroupWithStrategy(pattern, strategy, rest)
  \/ Resume
  \/ \E j \in 1..Len(task.slots), how \in {"fulfilled", "rejected"} : Settle(j, how)

SpecUnregistered == Init /\ [][NextUnregistered]_vars

-----------------------------------------------------------------------------
(* Claims about unregistered keys, checked under SpecUnregistered *)

\* the key was registered and is not any more
Gone(k) == k \in 1..symCount /\ ~isProtectedEvent(k)
BatchReachOps ==
  {"offGroup", "offNamespace", "offOnceGroup", "emitGroup", "emitNamespace",
   "emitGroupAsync", "emitGroupWithStrategy", "resume", "settle"}

-----------------------------------------------------------------------------
(* The batch emissions with and without a trailing emitter, while channels    *)
(* and a plain emitter have listeners                                         *)

TrailingArgs == {<<Str("x")>>, <<Str("x"), Em("raw")>>, <<Str("x"), Em("default")>>}

NextTrailing ==
  \/ \E metaArg \in BatchMetaArgs :
        /\ task.state = "idle" /\ symCount < MaxKeys
        /\ registerProtectedEvent("A", metaArg)
  \/ \E e \in RawEmitters \cup created, k \in 1..symCount :
        task.state = "idle" /\ on(e, Sym(k), "h1")
  \/ \E pattern \in EmitPatterns, rest \in TrailingArgs :
        task.state = "idle" /\ emitGroup(pattern, rest)
  \/ \E pattern \in EmitPatterns, rest \in TrailingArgs :
        task.state = "idle" /\ emitNamespace(pattern, rest)
  \/ \E pattern \in EmitPatterns, rest \in TrailingArgs :
        task.state = "idle" /\ emitGroupAsync(pattern, rest)
  \/ \E pattern \in EmitPatterns, rest \in TrailingArgs :
        task.state = "idle" /\ emitNamespaceAsync(pattern, rest)
  \/ \E j \in 1..Len(task.slots), how \in {"fulfilled", "rejected"} : Settle(j, how)

SpecTrailing == Init /\ [][NextTrailing]_vars

-----------------------------------------------------------------------------
(* Claims about the trailing emitter of the batch emissions, checked under    *)
(* SpecTrailing                                                               *)

\* what the step did, for a call with the arguments rest after the pattern:
\* without an emitter at the end it called no handler and changed no listener
\* list, every emission going to the new channel; with one, every emission
\* went to that emitter with the arguments before it, which are also what
\* the handlers received
TrailingRule(rest) ==
  IF rest = <<>> \/ ~isEventEmitter2(rest[Len(rest)])
    THEN /\ fired' = <<>>
         /\ events' = events
         /\ \A i \in 1..Len(emits') : emits'[i].em = Fresh /\ emits'[i].args = rest
    ELSE /\ \A i \in 1..Len(emits') :
              /\ emits'[i].em = rest[Len(rest)].em
              /\ emits'[i].args = SubSeq(rest, 1, Len(rest) - 1)
         /\ \A i \in 1..Len(fired') : fired'[i].args = SubSeq(rest, 1, Len(rest) - 1)

====
